---- MODULE Spec2Model ----
(***************************************************************************)
(* Fabric command pipeline of goworks.api: the Fabric aggregate, the       *)
(* PostgreSQL command repository (table fabrics), the PostgreSQL event     *)
(* store (table events), the command service that orchestrates them and    *)
(* the outward publisher.  Every request goroutine is a process; each      *)
(* database statement is one atomic step, the in-memory aggregate calls    *)
(* are steps of their own.                                                 *)
(***************************************************************************)
EXTENDS Integers, Sequences, FiniteSets, TLC

VARIABLES
    fabrics,     \* table fabrics: sequence of rows, in insertion order
    events,      \* table events: set of stored envelopes
    pc,          \* per process: position inside the command
    cmd,         \* per process: the arguments of the running command
    fabric,      \* per process: the in-memory *domain.Fabric (or NoFabric)
    envelopes,   \* per process: envelopesToPublish
    err,         \* per process: the error the command returned ("nil" = success)
    offered,     \* per process: the calls made to publisher.Publish, with outcome
    wrote,       \* per process: the state-store write of this command committed
    appended,    \* per process: the event-store append of this command committed
    current,     \* per process: the expected version was the stored ACTIVE version at the call
    writes,      \* log of the committed state-store writes
    history,     \* the completed commands of a one-at-a-time run, in order
    concurrency, \* how many requests the run has in flight at most
    started,     \* number of commands started so far
    handlers,    \* MessageRouter.handlers: the registered subject patterns
    message,     \* the inbound NATS message being handled
    delivery,    \* how far the message got: position, handler, service call, result
    aggregate,   \* one *domain.Fabric under a sequence of aggregate operations
    publication, \* one call of NatsPublisher.Publish: envelope, error, what reached the connection
    batch        \* the last call of PostgresStore.Save made on its own: envelopes, error, call number

ingressVars == <<handlers, message, delivery>>

serviceVars == <<fabrics, events, pc, cmd, fabric, envelopes, err, offered,
                 wrote, appended, current, writes, history, concurrency, started>>

vars == <<fabrics, events, pc, cmd, fabric, envelopes, err, offered,
          wrote, appended, current, writes, history, concurrency, started,
          handlers, message, delivery, aggregate, publication, batch>>

----------------------------------------------------------------------------
(* Bounds of the model *)

MaxCommands == 4
MaxVersion == 2

\* the request goroutines that can be in flight at the same time
Procs == {1, 2, 3}
\* a code is the sequence of its characters
Codes == {<<"F", "1">>}
\* the names requests carry, each the sequence of its characters: control
\* flow depends on a name only through its length, so one valid name per kind
\* of request, chosen distinct so that every successful write changes the
\* stored name
CreateNames == {<<"C", "o", "t", "t", "o", "n">>}
UpdateNames == {<<"S", "i", "l", "k">>}
MeasureUnits == {"m"}
OfferStatuses == {"available"}

----------------------------------------------------------------------------
(* domain: constants and errors *)

StatusActive == "ACTIVE"
StatusDeleted == "DELETED"

ErrInvalidFabricCodeLength == "ErrInvalidFabricCodeLength"
ErrInvalidFabricCodePattern == "ErrInvalidFabricCodePattern"
ErrInvalidFabricNameLength == "ErrInvalidFabricNameLength"
ErrRecordNotFound == "ErrRecordNotFound"
ErrDuplicateFabricCode == "ErrDuplicateFabricCode"
ErrConcurrencyConflict == "ErrConcurrencyConflict"
ErrFabricDeleted == "ErrFabricDeleted"
\* eventstore.ErrConcurrencyConflict: a sentinel of its own
EventStoreErrConcurrencyConflict == "eventstore.ErrConcurrencyConflict"
\* any fmt.Errorf / driver error that wraps none of the sentinels
StorageError == "StorageError"
Nil == "nil"

NoFabric == [Code |-> <<>>, Version |-> 0]

CommandSourceREST == "rest"
CommandSourceEvent == "event"
NoCommandSource == "absent"

----------------------------------------------------------------------------
(* domain.Fabric: the aggregate *)

CodeAlphabet == {"A", "B", "C", "D", "E", "F", "G", "H", "I", "J", "K", "L", "M",
                 "N", "O", "P", "Q", "R", "S", "T", "U", "V", "W", "X", "Y", "Z",
                 "0", "1", "2", "3", "4", "5", "6", "7", "8", "9"}

MinCodeLen == 2
MaxCodeLen == 30
MinNameLen == 1
MaxNameLen == 250

\* characters outside ASCII, named by their code point: U+017C is the letter
\* z with dot above, two bytes in UTF-8
TwoByteRunes == {"U+017C"}

RuneLen(c) == IF c \in TwoByteRunes THEN 2 ELSE 1

\* len(s) of a Go string: the number of bytes of its UTF-8 encoding, one for
\* each character and one more for each two-byte character
len(s) == Len(s) + Cardinality({i \in 1..Len(s) : RuneLen(s[i]) = 2})

validateCode(code) ==
    IF len(code) < MinCodeLen \/ len(code) > MaxCodeLen
        THEN ErrInvalidFabricCodeLength
    ELSE IF \E i \in 1..Len(code) : code[i] \notin CodeAlphabet
        THEN ErrInvalidFabricCodePattern
    ELSE Nil

validateName(name) ==
    IF len(name) < MinNameLen \/ len(name) > MaxNameLen
        THEN ErrInvalidFabricNameLength
    ELSE Nil

FabricCreated(f) ==
    [type |-> "FabricCreated", Code |-> f.Code, Name |-> f.Name,
     MeasureUnit |-> f.MeasureUnit, OfferStatus |-> f.OfferStatus,
     Version |-> f.Version]

FabricUpdated(f) ==
    [type |-> "FabricUpdated", Code |-> f.Code, Name |-> f.Name,
     MeasureUnit |-> f.MeasureUnit, OfferStatus |-> f.OfferStatus,
     Version |-> f.Version]

FabricDeleted(f) ==
    [type |-> "FabricDeleted", Code |-> f.Code, Version |-> f.Version]

FabricReactivated(f) ==
    [type |-> "FabricReactivated", Code |-> f.Code, Name |-> f.Name,
     MeasureUnit |-> f.MeasureUnit, OfferStatus |-> f.OfferStatus,
     Version |-> f.Version]

\* each aggregate operation yields [err, fabric]; on error the fabric is untouched
NewFabric(code, name, measureUnit, offerStatus) ==
    IF validateCode(code) # Nil
        THEN [err |-> validateCode(code), fabric |-> NoFabric]
    ELSE IF validateName(name) # Nil
        THEN [err |-> validateName(name), fabric |-> NoFabric]
    ELSE LET f == [Code |-> code, Name |-> name, MeasureUnit |-> measureUnit,
                   OfferStatus |-> offerStatus, Status |-> StatusActive,
                   Version |-> 1, events |-> <<>>]
         IN [err |-> Nil,
             fabric |-> [f EXCEPT !.events = Append(f.events, FabricCreated(f))]]

\* an update that applies whatever the version the caller holds
UpdateFabricAnyVersion(f, name, measureUnit, offerStatus, version) ==
    IF f.Status = StatusDeleted
        THEN [err |-> ErrFabricDeleted, fabric |-> f]
    ELSE IF validateName(name) # Nil
        THEN [err |-> validateName(name), fabric |-> f]
    ELSE LET g == [f EXCEPT !.Name = name, !.MeasureUnit = measureUnit,
                            !.OfferStatus = offerStatus, !.Version = f.Version + 1]
         IN [err |-> Nil,
             fabric |-> [g EXCEPT !.events = Append(g.events, FabricUpdated(g))]]

\* an update that validates the name before it looks at status and version
UpdateFabricNameFirst(f, name, measureUnit, offerStatus, version) ==
    IF validateName(name) # Nil
        THEN [err |-> validateName(name), fabric |-> f]
    ELSE IF f.Status = StatusDeleted
        THEN [err |-> ErrFabricDeleted, fabric |-> f]
    ELSE IF f.Version # version
        THEN [err |-> ErrConcurrencyConflict, fabric |-> f]
    ELSE LET g == [f EXCEPT !.Name = name, !.MeasureUnit = measureUnit,
                            !.OfferStatus = offerStatus, !.Version = f.Version + 1]
         IN [err |-> Nil,
             fabric |-> [g EXCEPT !.events = Append(g.events, FabricUpdated(g))]]

UpdateFabric(f, name, measureUnit, offerStatus, version) ==
    IF f.Status = StatusDeleted
        THEN [err |-> ErrFabricDeleted, fabric |-> f]
    ELSE IF f.Version # version
        THEN [err |-> ErrConcurrencyConflict, fabric |-> f]
    ELSE IF validateName(name) # Nil
        THEN [err |-> validateName(name), fabric |-> f]
    ELSE LET g == [f EXCEPT !.Name = name, !.MeasureUnit = measureUnit,
                            !.OfferStatus = offerStatus, !.Version = f.Version + 1]
         IN [err |-> Nil,
             fabric |-> [g EXCEPT !.events = Append(g.events, FabricUpdated(g))]]

\* a Delete that marks the instance and leaves its version alone
DeleteKeepingVersion(f, version) ==
    IF f.Status = StatusDeleted
        THEN [err |-> ErrFabricDeleted, fabric |-> f]
    ELSE IF f.Version # version
        THEN [err |-> ErrConcurrencyConflict, fabric |-> f]
    ELSE LET g == [f EXCEPT !.Status = StatusDeleted]
         IN [err |-> Nil,
             fabric |-> [g EXCEPT !.events = Append(g.events, FabricDeleted(g))]]

Delete(f, version) ==
    IF f.Status = StatusDeleted
        THEN [err |-> ErrFabricDeleted, fabric |-> f]
    ELSE IF f.Version # version
        THEN [err |-> ErrConcurrencyConflict, fabric |-> f]
    ELSE LET g == [f EXCEPT !.Status = StatusDeleted, !.Version = f.Version + 1]
         IN [err |-> Nil,
             fabric |-> [g EXCEPT !.events = Append(g.events, FabricDeleted(g))]]

\* a Reactivate that reactivates whatever the status of the instance
ReactivateWhateverStatus(f, name, measureUnit, offerStatus, version) ==
    IF f.Version # version
        THEN [err |-> ErrConcurrencyConflict, fabric |-> f]
    ELSE IF validateName(name) # Nil
        THEN [err |-> validateName(name), fabric |-> f]
    ELSE LET g == [f EXCEPT !.Status = StatusActive, !.Name = name,
                            !.MeasureUnit = measureUnit,
                            !.OfferStatus = offerStatus, !.Version = f.Version + 1]
         IN [err |-> Nil,
             fabric |-> [g EXCEPT !.events = Append(g.events, FabricReactivated(g))]]

\* a Reactivate that marks the instance ACTIVE before it checks the version
ReactivateMarkingFirst(f, name, measureUnit, offerStatus, version) ==
    IF f.Status = StatusActive
        THEN UpdateFabric(f, name, measureUnit, offerStatus, version)
    ELSE IF f.Version # version
        THEN [err |-> ErrConcurrencyConflict,
              fabric |-> [f EXCEPT !.Status = StatusActive]]
    ELSE IF validateName(name) # Nil
        THEN [err |-> validateName(name),
              fabric |-> [f EXCEPT !.Status = StatusActive]]
    ELSE LET g == [f EXCEPT !.Status = StatusActive, !.Name = name,
                            !.MeasureUnit = measureUnit,
                            !.OfferStatus = offerStatus, !.Version = f.Version + 1]
         IN [err |-> Nil,
             fabric |-> [g EXCEPT !.events = Append(g.events, FabricReactivated(g))]]

Reactivate(f, name, measureUnit, offerStatus, version) ==
    IF f.Status = StatusActive
        THEN UpdateFabric(f, name, measureUnit, offerStatus, version)
    ELSE IF f.Version # version
        THEN [err |-> ErrConcurrencyConflict, fabric |-> f]
    ELSE IF validateName(name) # Nil
        THEN [err |-> validateName(name), fabric |-> f]
    ELSE LET g == [f EXCEPT !.Status = StatusActive, !.Name = name,
                            !.MeasureUnit = measureUnit,
                            !.OfferStatus = offerStatus, !.Version = f.Version + 1]
         IN [err |-> Nil,
             fabric |-> [g EXCEPT !.events = Append(g.events, FabricReactivated(g))]]

\* Fabric.Events: the slice itself is returned and the field is left as it is
Events(f) == f.events

----------------------------------------------------------------------------
(* persistence.FabricPostgresRepository over table fabrics *)

Row(f) ==
    [version |-> f.Version, code |-> f.Code, name |-> f.Name,
     measure_unit |-> f.MeasureUnit, offer_status |-> f.OfferStatus,
     status |-> f.Status]

\* rows.Scan into a fresh &domain.Fabric{}: the pending events start empty
Scan(r) ==
    [Code |-> r.code, Name |-> r.name, MeasureUnit |-> r.measure_unit,
     OfferStatus |-> r.offer_status, Status |-> r.status,
     Version |-> r.version, events |-> <<>>]

RowsOf(table, code) == {i \in DOMAIN table : table[i].code = code}

\* a lookup that returns the row of a code whatever its status
RowsOfAnyStatus(table, code) == {i \in DOMAIN table : table[i].code = code}

ActiveRowsOf(table, code) ==
    {i \in RowsOf(table, code) : table[i].status = StatusActive}

\* CREATE UNIQUE INDEX fabrics_active_code_idx ON fabrics (code) WHERE status = 'ACTIVE'
ActiveCodeIdxHolds(table) ==
    \A i, j \in DOMAIN table :
        (/\ table[i].code = table[j].code
         /\ table[i].status = StatusActive
         /\ table[j].status = StatusActive) => i = j

\* a WHERE clause that forgets the version
UpdateMatchesAnyVersion(table, f) ==
    {i \in DOMAIN table : /\ table[i].code = f.Code
                          /\ table[i].status = StatusActive}

\* UPDATE fabrics SET name, measure_unit, offer_status, version
\*   WHERE code = $5 AND version = $6 AND status = 'ACTIVE'   ($6 = fabric.Version - 1)
UpdateMatches(table, f) ==
    {i \in DOMAIN table : /\ table[i].code = f.Code
                          /\ table[i].version = f.Version - 1
                          /\ table[i].status = StatusActive}

UpdateRows(table, f) ==
    [i \in DOMAIN table |->
        IF i \in UpdateMatches(table, f)
            THEN [table[i] EXCEPT !.name = f.Name, !.measure_unit = f.MeasureUnit,
                                  !.offer_status = f.OfferStatus, !.version = f.Version]
            ELSE table[i]]

\* UPDATE fabrics SET status = $1 WHERE code = $2 AND version = $3   ($3 = fabric.Version)
DeleteMatches(table, f) ==
    {i \in DOMAIN table : table[i].code = f.Code /\ table[i].version = f.Version}

DeleteRows(table, f) ==
    [i \in DOMAIN table |->
        IF i \in DeleteMatches(table, f)
            THEN [table[i] EXCEPT !.status = StatusDeleted]
            ELSE table[i]]

\* Save, reactivation branch:
\* UPDATE fabrics SET name, measure_unit, offer_status, status, version WHERE code = $6
ReactivateRows(table, f) ==
    [i \in DOMAIN table |->
        IF table[i].code = f.Code
            THEN [table[i] EXCEPT !.name = f.Name, !.measure_unit = f.MeasureUnit,
                                  !.offer_status = f.OfferStatus, !.status = f.Status,
                                  !.version = f.Version]
            ELSE table[i]]

\* the entries a statement adds to the log of committed writes: the rows it
\* changed, with the version before (prev), the version the command had read
\* (base) and what the statement left in the row
WriteLog(table, after, rows, op, base) ==
    {[op |-> op, code |-> after[i].code, row |-> i, prev |-> table[i].version,
      base |-> base, version |-> after[i].version, status |-> after[i].status] :
        i \in rows}

----------------------------------------------------------------------------
(* messaging.EventEnvelope, eventstore.PostgresStore, messaging.NatsPublisher *)

\* EventID (a fresh UUID), Timestamp and the optional metadata are left out
NewEventEnvelope(eventType, aggregateID, aggregateType, aggregateVersion, payload) ==
    [EventType |-> eventType, EventVersion |-> 1, AggregateID |-> aggregateID,
     AggregateType |-> aggregateType, AggregateVersion |-> aggregateVersion,
     Payload |-> payload]

\* the nil interface value of EventEnvelope.Payload, and the two payloads
\* that are present but hold nothing: map[string]interface{}{} and ""
NilPayload == [type |-> "nil"]
PayloadEmptyObject == [type |-> "object", members |-> 0]
PayloadEmptyString == [type |-> "string", chars |-> 0]

Validate(e) ==
    IF e.EventType = "" THEN "event type is required"
    ELSE IF e.AggregateID = <<>> THEN "aggregate ID is required"
    ELSE IF e.AggregateType = "" THEN "aggregate type is required"
    ELSE IF e.Payload = NilPayload THEN "payload is required"
    ELSE Nil

\* a table events without the constraint
NoUniqueAggregateVersion(store, e) == TRUE

\* CONSTRAINT unique_aggregate_version UNIQUE (aggregate_id, aggregate_version)
UniqueAggregateVersion(store, e) ==
    \A s \in store : ~(/\ s.AggregateID = e.AggregateID
                       /\ s.AggregateVersion = e.AggregateVersion)

\* a Save whose statements are not in one transaction: what was inserted
\* before the violated INSERT stays
RECURSIVE InsertEach(_, _, _)
InsertEach(store, tx, envs) ==
    IF envs = <<>> THEN [err |-> Nil, events |-> tx]
    ELSE IF ~UniqueAggregateVersion(tx, Head(envs))
        THEN [err |-> EventStoreErrConcurrencyConflict, events |-> tx]
    ELSE InsertEach(store, tx \cup {Head(envs)}, Tail(envs))

\* PostgresStore.Save without a driver failure: the statements of one
\* transaction; the first violated INSERT rolls the whole batch back
RECURSIVE InsertAll(_, _, _)
InsertAll(store, tx, envs) ==
    IF envs = <<>> THEN [err |-> Nil, events |-> tx]
    ELSE IF ~UniqueAggregateVersion(tx, Head(envs))
        THEN [err |-> EventStoreErrConcurrencyConflict, events |-> store]
    ELSE InsertAll(store, tx \cup {Head(envs)}, Tail(envs))

\* a store that acknowledges a batch without recording it
EventStoreSaveUnrecorded(store, envs) == [err |-> Nil, events |-> store]

EventStoreSave(store, envs) == InsertAll(store, store, envs)

\* a lookup without the default: an unmarked context has no source
GetCommandSourceNoDefault(source) == source

\* GetCommandSource: the value the context was marked with, and
\* CommandSourceREST ("safe default") when it carries none
GetCommandSource(source) ==
    IF source # NoCommandSource THEN source
    ELSE CommandSourceREST

\* a service that publishes whatever the source
IsFromAnywhere(source) == TRUE

IsFromREST(source) == GetCommandSource(source) = CommandSourceREST

----------------------------------------------------------------------------
(* The state after construction: empty tables, every goroutine idle *)

NoCommand ==
    [kind |-> "none", code |-> <<>>, name |-> <<>>, measureUnit |-> "",
     offerStatus |-> "", version |-> 0, source |-> NoCommandSource,
     aggregateVersion |-> 0]

NoMessage == [subject |-> <<>>, payload |-> [json |-> "none"]]

NoDelivery ==
    [pc |-> "none", handler |-> <<>>, invoked |-> NoCommand, result |-> Nil]

\* no router and no message in the runs of the command service
NoIngress ==
    /\ handlers = {}
    /\ message = NoMessage
    /\ delivery = NoDelivery

\* no envelope handed to the publisher from outside the command service
NoPublication ==
    [pc |-> "none", envelope |-> NilPayload, err |-> Nil, sent |-> <<>>]

\* no batch handed to the event store from outside the command service
NoBatch == [envelopes |-> <<>>, err |-> Nil, calls |-> 0]

\* no aggregate under test in the runs of the command service
NoAggregate ==
    [fabric |-> NoFabric, err |-> Nil, op |-> "none",
     input |-> [code |-> <<>>, name |-> <<>>, measureUnit |-> "", offerStatus |-> ""],
     args |-> [name |-> <<>>, measureUnit |-> "", offerStatus |-> "", version |-> 0],
     calls |-> 0, mutations |-> 0]

Init ==
    /\ fabrics = <<>>
    /\ events = {}
    /\ pc = [p \in Procs |-> "idle"]
    /\ cmd = [p \in Procs |-> NoCommand]
    /\ fabric = [p \in Procs |-> NoFabric]
    /\ envelopes = [p \in Procs |-> <<>>]
    /\ err = [p \in Procs |-> Nil]
    /\ offered = [p \in Procs |-> <<>>]
    /\ wrote = [p \in Procs |-> FALSE]
    /\ appended = [p \in Procs |-> FALSE]
    /\ current = [p \in Procs |-> FALSE]
    /\ writes = {}
    /\ history = <<>>
    /\ concurrency = 2
    /\ started = 0
    /\ NoIngress
    /\ aggregate = NoAggregate
    /\ publication = NoPublication
    /\ batch = NoBatch

\* the same service behind a client that sends one request at a time
InitSequential ==
    /\ fabrics = <<>>
    /\ events = {}
    /\ pc = [p \in Procs |-> "idle"]
    /\ cmd = [p \in Procs |-> NoCommand]
    /\ fabric = [p \in Procs |-> NoFabric]
    /\ envelopes = [p \in Procs |-> <<>>]
    /\ err = [p \in Procs |-> Nil]
    /\ offered = [p \in Procs |-> <<>>]
    /\ wrote = [p \in Procs |-> FALSE]
    /\ appended = [p \in Procs |-> FALSE]
    /\ current = [p \in Procs |-> FALSE]
    /\ writes = {}
    /\ history = <<>>
    /\ concurrency = 1
    /\ started = 0
    /\ NoIngress
    /\ aggregate = NoAggregate
    /\ publication = NoPublication
    /\ batch = NoBatch

InFlight(p) == pc[p] \notin {"idle", "done"}

\* the command returns e to its caller
ReturnErr(p, e) ==
    /\ pc' = [pc EXCEPT ![p] = "done"]
    /\ err' = [err EXCEPT ![p] = e]

\* the version of the ACTIVE row of a code, 0 when it has none
ActiveVersion(table, code) ==
    IF ActiveRowsOf(table, code) = {} THEN 0
    ELSE table[CHOOSE i \in ActiveRowsOf(table, code) : TRUE].version

\* a one-at-a-time run keeps the list of its completed commands
Log(p) ==
    history' = IF concurrency = 1 /\ pc'[p] = "done"
                 THEN Append(history, [kind |-> cmd[p].kind, version |-> cmd[p].version,
                                       current |-> current[p], err |-> err'[p]])
                 ELSE history

----------------------------------------------------------------------------
(* Ingress: a handler calls the command service with a marked context.     *)
(* FabricCommandHandler marks CommandSourceREST, FabricEventHandler marks  *)
(* CommandSourceEvent.                                                     *)

\* A request is served by the first free goroutine; the goroutines of the
\* requests that have returned are gone by then, with what they held.
Fresh(p, q, old, new, none) ==
    IF q = p THEN new ELSE IF InFlight(q) THEN old ELSE none

Begin(p, c, first) ==
    /\ ~InFlight(p)
    /\ p <= concurrency
    /\ \A q \in Procs : q < p => InFlight(q)
    /\ started < MaxCommands
    /\ started' = started + 1
    /\ cmd' = [q \in Procs |-> Fresh(p, q, cmd[q], c, NoCommand)]
    /\ pc' = [q \in Procs |-> Fresh(p, q, pc[q], first, "idle")]
    /\ fabric' = [q \in Procs |-> Fresh(p, q, fabric[q], NoFabric, NoFabric)]
    /\ envelopes' = [q \in Procs |-> Fresh(p, q, envelopes[q], <<>>, <<>>)]
    /\ err' = [q \in Procs |-> Fresh(p, q, err[q], Nil, Nil)]
    /\ offered' = [q \in Procs |-> Fresh(p, q, offered[q], <<>>, <<>>)]
    /\ wrote' = [q \in Procs |-> Fresh(p, q, wrote[q], FALSE, FALSE)]
    /\ appended' = [q \in Procs |-> Fresh(p, q, appended[q], FALSE, FALSE)]
    /\ current' = [q \in Procs |->
                     Fresh(p, q, current[q],
                           IF c.kind = "create"
                             THEN ActiveRowsOf(fabrics, c.code) # {}
                             ELSE /\ ActiveRowsOf(fabrics, c.code) # {}
                                  /\ c.version = ActiveVersion(fabrics, c.code),
                           FALSE)]
    /\ UNCHANGED <<fabrics, events, writes, history, concurrency,
                   ingressVars, aggregate, publication, batch>>

\* FabricCommandHandler.createFabric / updateFabric / deleteFabric: the request
\* has passed ReadJSON and the validator; REST requests carry no envelope
CallCreateFabric(p) ==
    \E code \in Codes, name \in CreateNames, mu \in MeasureUnits, os \in OfferStatuses :
        Begin(p, [kind |-> "create", code |-> code, name |-> name,
                  measureUnit |-> mu, offerStatus |-> os, version |-> 0,
                  source |-> CommandSourceREST, aggregateVersion |-> 0], "create_new")

CallUpdateFabric(p) ==
    \E code \in Codes, name \in UpdateNames, mu \in MeasureUnits, os \in OfferStatuses,
       version \in 1..MaxVersion :
        Begin(p, [kind |-> "update", code |-> code, name |-> name,
                  measureUnit |-> mu, offerStatus |-> os, version |-> version,
                  source |-> CommandSourceREST, aggregateVersion |-> 0], "update_get")

CallDeleteFabric(p) ==
    \E code \in Codes, version \in 1..MaxVersion :
        Begin(p, [kind |-> "delete", code |-> code, name |-> <<>>,
                  measureUnit |-> "", offerStatus |-> "", version |-> version,
                  source |-> CommandSourceREST, aggregateVersion |-> 0], "delete_get")

\* the HTTP status each REST handler answers for the service's error
StatusOK == 200
StatusAccepted == 202
StatusNoContent == 204
StatusNotFound == 404
StatusConflict == 409
StatusUnprocessableEntity == 422
StatusInternalServerError == 500

createFabricStatus(e) ==
    IF e = Nil THEN StatusAccepted
    ELSE IF e = ErrDuplicateFabricCode THEN StatusConflict
    ELSE IF e \in {ErrInvalidFabricCodeLength, ErrInvalidFabricCodePattern,
                   ErrInvalidFabricNameLength} THEN StatusUnprocessableEntity
    ELSE StatusInternalServerError

updateFabricStatus(e) ==
    IF e = Nil THEN StatusOK
    ELSE IF e = ErrRecordNotFound THEN StatusNotFound
    ELSE IF e = ErrConcurrencyConflict THEN StatusConflict
    ELSE IF e = ErrInvalidFabricNameLength THEN StatusUnprocessableEntity
    ELSE StatusInternalServerError

deleteFabricStatus(e) ==
    IF e = Nil THEN StatusNoContent
    ELSE IF e = ErrRecordNotFound THEN StatusNotFound
    ELSE IF e = ErrConcurrencyConflict THEN StatusConflict
    ELSE StatusInternalServerError

----------------------------------------------------------------------------
(* FabricEventHandler: the ERP events, adapted to commands *)

\* the AggregateVersion values the inbound envelopes carry
ExternalVersions == 1..MaxVersion

DefaultMeasureUnit == "MB"
DefaultOfferStatus == "ACTIVE"

withDefaults(event) ==
    [event EXCEPT
        !.MeasureUnit = IF event.MeasureUnit = "" THEN DefaultMeasureUnit
                        ELSE event.MeasureUnit,
        !.OfferStatus = IF event.OfferStatus = "" THEN DefaultOfferStatus
                        ELSE event.OfferStatus]

\* v.Valid() after validateCreateFabricEvent / validateUpdateFabricEvent
validateCreateFabricEvent(event) ==
    /\ event.Code # <<>>
    /\ len(event.Code) >= MinCodeLen
    /\ len(event.Code) <= MaxCodeLen
    /\ \A i \in 1..Len(event.Code) : event.Code[i] \in CodeAlphabet
    /\ event.Name # <<>>
    /\ len(event.Name) <= MaxNameLen

validateUpdateFabricEvent(version, event) ==
    /\ version > 0
    /\ event.Name # <<>>
    /\ len(event.Name) <= MaxNameLen

\* the service call each handler makes
CreateEventCommand(event) ==
    [kind |-> "create", code |-> event.Code, name |-> event.Name,
     measureUnit |-> event.MeasureUnit, offerStatus |-> event.OfferStatus,
     version |-> 0, source |-> CommandSourceEvent, aggregateVersion |-> 0]

\* an adapter that passes the envelope's version on as it is
UpdateEventCommandSameVersion(event, version) ==
    [kind |-> "update", code |-> event.Code, name |-> event.Name,
     measureUnit |-> event.MeasureUnit, offerStatus |-> event.OfferStatus,
     version |-> version, source |-> CommandSourceEvent,
     aggregateVersion |-> version]

\* "version sent by the erp system is the next version ... we need to subtract 1"
UpdateEventCommand(event, version) ==
    [kind |-> "update", code |-> event.Code, name |-> event.Name,
     measureUnit |-> event.MeasureUnit, offerStatus |-> event.OfferStatus,
     version |-> version - 1, source |-> CommandSourceEvent,
     aggregateVersion |-> version]

\* h.service.DeleteFabric(ctx, event.Code, version)
DeleteEventCommand(event, version) ==
    [kind |-> "delete", code |-> event.Code, name |-> <<>>,
     measureUnit |-> "", offerStatus |-> "",
     version |-> version, source |-> CommandSourceEvent,
     aggregateVersion |-> version]

\* what each handler returns to the subscriber for the service's error:
\* nil acknowledges the message, an error asks for redelivery
\* a handler that asks for redelivery on every error of the service
CreateEventResultStrict(e) == e

CreateEventResult(e) ==
    IF e = Nil THEN Nil
    ELSE IF e = ErrDuplicateFabricCode THEN Nil
    ELSE IF e \in {ErrInvalidFabricCodeLength, ErrInvalidFabricCodePattern,
                   ErrInvalidFabricNameLength} THEN Nil
    ELSE e

\* an update handler that asks for redelivery on every error of the service
UpdateEventResultStrict(e) == e

UpdateEventResult(e) ==
    IF e = Nil THEN Nil
    ELSE IF e = ErrRecordNotFound THEN Nil
    ELSE IF e = ErrConcurrencyConflict THEN Nil
    ELSE IF e = ErrInvalidFabricNameLength THEN Nil
    ELSE e

DeleteEventResult(e) ==
    IF e = Nil THEN Nil
    ELSE IF e = ErrRecordNotFound THEN Nil
    ELSE IF e = ErrConcurrencyConflict THEN Nil
    ELSE e

handleCreateEvent(p) ==
    \E code \in Codes, name \in CreateNames, mu \in MeasureUnits, os \in OfferStatuses :
        LET event == withDefaults([Code |-> code, Name |-> name,
                                   MeasureUnit |-> mu, OfferStatus |-> os])
        IN /\ validateCreateFabricEvent(event)
           /\ Begin(p, CreateEventCommand(event), "create_new")

handleUpdateEvent(p) ==
    \E code \in Codes, name \in UpdateNames, mu \in MeasureUnits, os \in OfferStatuses,
       version \in ExternalVersions :
        LET event == withDefaults([Code |-> code, Name |-> name,
                                   MeasureUnit |-> mu, OfferStatus |-> os])
        IN /\ validateUpdateFabricEvent(version, event)
           /\ Begin(p, UpdateEventCommand(event, version), "update_get")

handleDeleteEvent(p) ==
    \E code \in Codes, version \in ExternalVersions :
        Begin(p, DeleteEventCommand([Code |-> code, Name |-> <<>>, MeasureUnit |-> "",
                                     OfferStatus |-> ""], version), "delete_get")

----------------------------------------------------------------------------
(* FabricService.CreateFabric with FabricPostgresRepository.Save *)

\* domain.NewFabric(code, name, measureUnit, offerStatus)
CreateNew(p) ==
    /\ pc[p] = "create_new"
    /\ LET r == NewFabric(cmd[p].code, cmd[p].name, cmd[p].measureUnit,
                          cmd[p].offerStatus)
       IN IF r.err # Nil
            THEN ReturnErr(p, r.err) /\ UNCHANGED fabric
            ELSE /\ fabric' = [fabric EXCEPT ![p] = r.fabric]
                 /\ pc' = [pc EXCEPT ![p] = "save_select"]
                 /\ UNCHANGED err
    /\ UNCHANGED <<fabrics, events, cmd, envelopes, offered, wrote, appended,
                   current, writes, concurrency, started,
                   ingressVars, aggregate, publication, batch>>
    /\ Log(p)

\* Save: BeginTx, SELECT ... WHERE code = $1 FOR UPDATE; an ACTIVE row is a
\* duplicate, a DELETED row is reactivated and committed under the row lock
SaveReactivate(p, i) ==
    LET r == Reactivate(Scan(fabrics[i]), fabric[p].Name, fabric[p].MeasureUnit,
                        fabric[p].OfferStatus, fabrics[i].version)
        table == ReactivateRows(fabrics, r.fabric)
    IN IF r.err # Nil
         THEN ReturnErr(p, r.err) /\ UNCHANGED <<fabrics, fabric, wrote, writes>>
       ELSE IF ~ActiveCodeIdxHolds(table)
         THEN ReturnErr(p, StorageError)
              /\ UNCHANGED <<fabrics, fabric, wrote, writes>>
       ELSE /\ fabrics' = table
            /\ fabric' = [fabric EXCEPT ![p] = r.fabric]
            /\ wrote' = [wrote EXCEPT ![p] = TRUE]
            /\ writes' = writes \cup
                 WriteLog(fabrics, table, RowsOf(fabrics, r.fabric.Code),
                          "reactivate", fabrics[i].version)
            /\ pc' = [pc EXCEPT ![p] = "store"]
            /\ UNCHANGED err

SaveSelect(p) ==
    /\ pc[p] = "save_select"
    /\ \/ /\ RowsOf(fabrics, fabric[p].Code) = {}
          /\ pc' = [pc EXCEPT ![p] = "save_insert"]
          /\ UNCHANGED <<fabrics, fabric, err, wrote, writes>>
       \/ \E i \in RowsOf(fabrics, fabric[p].Code) :
             IF fabrics[i].status = StatusActive
               THEN ReturnErr(p, ErrDuplicateFabricCode)
                    /\ UNCHANGED <<fabrics, fabric, wrote, writes>>
               ELSE SaveReactivate(p, i)
       \/ /\ ReturnErr(p, StorageError)
          /\ UNCHANGED <<fabrics, fabric, wrote, writes>>
    /\ UNCHANGED <<events, cmd, envelopes, offered, appended, current, concurrency, started,
                   ingressVars, aggregate, publication, batch>>
    /\ Log(p)

\* Save: INSERT INTO fabrics ..., Commit; 23505 is a duplicate code
SaveInsert(p) ==
    /\ pc[p] = "save_insert"
    /\ \/ /\ ActiveCodeIdxHolds(Append(fabrics, Row(fabric[p])))
          /\ fabrics' = Append(fabrics, Row(fabric[p]))
          /\ wrote' = [wrote EXCEPT ![p] = TRUE]
          /\ writes' = writes \cup
               {[op |-> "insert", code |-> fabric[p].Code,
                 row |-> Len(fabrics) + 1, prev |-> 0, base |-> 0,
                 version |-> fabric[p].Version, status |-> fabric[p].Status]}
          /\ pc' = [pc EXCEPT ![p] = "store"]
          /\ UNCHANGED err
       \/ /\ ~ActiveCodeIdxHolds(Append(fabrics, Row(fabric[p])))
          /\ ReturnErr(p, ErrDuplicateFabricCode)
          /\ UNCHANGED <<fabrics, wrote, writes>>
       \/ /\ ReturnErr(p, StorageError)
          /\ UNCHANGED <<fabrics, wrote, writes>>
    /\ UNCHANGED <<events, cmd, fabric, envelopes, offered, appended, current,
                   concurrency, started,
                   ingressVars, aggregate, publication, batch>>
    /\ Log(p)

----------------------------------------------------------------------------
(* FabricService.UpdateFabric / DeleteFabric with GetByCode, Update, Delete *)

\* GetByCode: SELECT ... WHERE code = $1 AND status = 'ACTIVE'
GetByCode(p, next) ==
    /\ \/ \E i \in ActiveRowsOf(fabrics, cmd[p].code) :
             /\ fabric' = [fabric EXCEPT ![p] = Scan(fabrics[i])]
             /\ pc' = [pc EXCEPT ![p] = next]
             /\ UNCHANGED err
       \/ /\ ActiveRowsOf(fabrics, cmd[p].code) = {}
          /\ ReturnErr(p, ErrRecordNotFound)
          /\ UNCHANGED fabric
       \/ /\ ReturnErr(p, StorageError)
          /\ UNCHANGED fabric
    /\ UNCHANGED <<fabrics, events, cmd, envelopes, offered, wrote, appended,
                   current, writes, concurrency, started,
                   ingressVars, aggregate, publication, batch>>
    /\ Log(p)

UpdateGet(p) == pc[p] = "update_get" /\ GetByCode(p, "update_apply")

DeleteGet(p) == pc[p] = "delete_get" /\ GetByCode(p, "delete_apply")

\* the in-memory aggregate call; a domain error is returned as it is
Apply(p, r, next) ==
    /\ IF r.err # Nil
         THEN ReturnErr(p, r.err) /\ UNCHANGED fabric
         ELSE /\ fabric' = [fabric EXCEPT ![p] = r.fabric]
              /\ pc' = [pc EXCEPT ![p] = next]
              /\ UNCHANGED err
    /\ UNCHANGED <<fabrics, events, cmd, envelopes, offered, wrote, appended,
                   current, writes, concurrency, started,
                   ingressVars, aggregate, publication, batch>>
    /\ Log(p)

UpdateApply(p) ==
    /\ pc[p] = "update_apply"
    /\ Apply(p, UpdateFabric(fabric[p], cmd[p].name, cmd[p].measureUnit,
                             cmd[p].offerStatus, cmd[p].version), "update_write")

DeleteApply(p) ==
    /\ pc[p] = "delete_apply"
    /\ Apply(p, Delete(fabric[p], cmd[p].version), "delete_write")

\* a result that never reports zero rows
RowsAffectedAtLeastOne(matches) ==
    IF matches = {} THEN 1 ELSE Cardinality(matches)

\* result.RowsAffected() of a statement that matched these rows
RowsAffected(matches) == Cardinality(matches)

\* one conditional UPDATE statement (autocommit), or a driver failure without
\* effect; zero rows affected is ErrRecordNotFound
ConditionalWrite(p, op, matches, table) ==
    /\ \/ /\ fabrics' = table
          /\ wrote' = [wrote EXCEPT ![p] = matches # {}]
          /\ writes' = writes \cup
               WriteLog(fabrics, table, matches, op, fabric[p].Version - 1)
          /\ IF RowsAffected(matches) = 0
               THEN ReturnErr(p, ErrRecordNotFound)
               ELSE pc' = [pc EXCEPT ![p] = "store"] /\ UNCHANGED err
       \/ /\ ReturnErr(p, StorageError)
          /\ UNCHANGED <<fabrics, wrote, writes>>
    /\ UNCHANGED <<events, cmd, fabric, envelopes, offered, appended, current,
                   concurrency, started,
                   ingressVars, aggregate, publication, batch>>
    /\ Log(p)

UpdateWrite(p) ==
    /\ pc[p] = "update_write"
    /\ ConditionalWrite(p, "update", UpdateMatches(fabrics, fabric[p]),
                        UpdateRows(fabrics, fabric[p]))

DeleteWrite(p) ==
    /\ pc[p] = "delete_write"
    /\ ConditionalWrite(p, "delete", DeleteMatches(fabrics, fabric[p]),
                        DeleteRows(fabrics, fabric[p]))

----------------------------------------------------------------------------
(* The common tail: build the envelopes, append them, publish them *)

\* a CreateFabric whose switch knows FabricCreated only
EventTypeOfCreatedOnly(kind, event) ==
    IF kind = "create" /\ event.type = "FabricCreated" THEN "app.fabric.created"
    ELSE IF kind = "update" /\ event.type = "FabricUpdated" THEN "app.fabric.updated"
    ELSE IF kind = "delete" /\ event.type = "FabricDeleted" THEN "app.fabric.deleted"
    ELSE ""

\* the switch / type assertion of each command over fabric.Events()
EventTypeOf(kind, event) ==
    IF kind = "create" /\ event.type = "FabricCreated" THEN "app.fabric.created"
    ELSE IF kind = "create" /\ event.type = "FabricReactivated"
        THEN "app.fabric.reactivated"
    ELSE IF kind = "update" /\ event.type = "FabricUpdated" THEN "app.fabric.updated"
    ELSE IF kind = "delete" /\ event.type = "FabricDeleted" THEN "app.fabric.deleted"
    ELSE ""

AggregateTypeOf(kind) == IF kind = "create" THEN "fabric" ELSE "Fabric"

RECURSIVE BuildEnvelopes(_, _, _)
BuildEnvelopes(kind, f, evs) ==
    IF evs = <<>> THEN <<>>
    ELSE IF EventTypeOf(kind, Head(evs)) = ""
        THEN BuildEnvelopes(kind, f, Tail(evs))
    ELSE <<NewEventEnvelope(EventTypeOf(kind, Head(evs)), f.Code,
                            AggregateTypeOf(kind), f.Version, Head(evs))>>
         \o BuildEnvelopes(kind, f, Tail(evs))

\* fmt.Errorf("...: %w", err): the command returns the store's error wrapped,
\* and the wrapped error still is the sentinel it wraps
WrappedErrDropped(e) == Nil

WrappedErr(e) == e

\* what follows a successful append
AfterAppend(p) == IF IsFromREST(cmd[p].source) THEN "publish" ELSE "done"

\* eventStore.Save(ctx, envelopesToPublish...), skipped for an empty batch
Store(p) ==
    /\ pc[p] = "store"
    /\ LET envs == BuildEnvelopes(cmd[p].kind, fabric[p], Events(fabric[p]))
           r == EventStoreSave(events, envs)
       IN /\ envelopes' = [envelopes EXCEPT ![p] = envs]
          /\ IF envs = <<>>
               THEN ReturnErr(p, Nil) /\ UNCHANGED <<events, appended>>
               ELSE \/ /\ r.err = Nil
                       /\ events' = r.events
                       /\ appended' = [appended EXCEPT ![p] = TRUE]
                       /\ pc' = [pc EXCEPT ![p] = AfterAppend(p)]
                       /\ UNCHANGED err
                    \/ /\ r.err # Nil
                       /\ ReturnErr(p, WrappedErr(r.err))
                       /\ UNCHANGED <<events, appended>>
                    \/ /\ ReturnErr(p, WrappedErr(StorageError))
                       /\ UNCHANGED <<events, appended>>
    /\ UNCHANGED <<fabrics, cmd, fabric, offered, wrote, current, writes, concurrency, started,
                   ingressVars, aggregate, publication, batch>>
    /\ Log(p)

\* a publisher that sends without validating
PublishOutcomesUnchecked(e) == {Nil, "failed to publish message"}

\* NatsPublisher.Publish: an invalid envelope is refused, a valid one may
\* still fail on the connection
PublishOutcomes(e) ==
    IF Validate(e) # Nil THEN {"invalid event envelope"}
    ELSE {Nil, "failed to publish message"}

\* a service that returns the first publish error
FirstPublishError(calls) ==
    IF \E i \in DOMAIN calls : calls[i].err # Nil
        THEN calls[CHOOSE i \in DOMAIN calls :
                     /\ calls[i].err # Nil
                     /\ \A j \in DOMAIN calls : j < i => calls[j].err = Nil].err
        ELSE Nil

\* a publish error is logged and recorded on the span; the command's own
\* result stays nil
ResultAfterPublish(calls) == Nil

\* for _, envelope := range envelopesToPublish: Publish, log the error, go on
Publish(p) ==
    /\ pc[p] = "publish"
    /\ \E out \in [DOMAIN envelopes[p] -> {Nil, "invalid event envelope",
                                            "failed to publish message"}] :
          /\ \A i \in DOMAIN envelopes[p] : out[i] \in PublishOutcomes(envelopes[p][i])
          /\ offered' = [offered EXCEPT ![p] =
                [i \in DOMAIN envelopes[p] |->
                    [envelope |-> envelopes[p][i], err |-> out[i]]]]
          /\ ReturnErr(p, ResultAfterPublish(offered'[p]))
    /\ UNCHANGED <<fabrics, events, cmd, fabric, envelopes, wrote, appended,
                   current, writes, concurrency, started,
                   ingressVars, aggregate, publication, batch>>
    /\ Log(p)

Next ==
    \E p \in Procs :
        \/ CallCreateFabric(p)
        \/ CallUpdateFabric(p)
        \/ CallDeleteFabric(p)
        \/ handleCreateEvent(p)
        \/ handleUpdateEvent(p)
        \/ handleDeleteEvent(p)
        \/ CreateNew(p)
        \/ SaveSelect(p)
        \/ SaveInsert(p)
        \/ UpdateGet(p)
        \/ UpdateApply(p)
        \/ UpdateWrite(p)
        \/ DeleteGet(p)
        \/ DeleteApply(p)
        \/ DeleteWrite(p)
        \/ Store(p)
        \/ Publish(p)

Spec == Init /\ [][Next]_vars

SpecSequential == InitSequential /\ [][Next]_vars

\* three requests of the REST handler in flight at most
InitThree ==
    /\ fabrics = <<>>
    /\ events = {}
    /\ pc = [p \in Procs |-> "idle"]
    /\ cmd = [p \in Procs |-> NoCommand]
    /\ fabric = [p \in Procs |-> NoFabric]
    /\ envelopes = [p \in Procs |-> <<>>]
    /\ err = [p \in Procs |-> Nil]
    /\ offered = [p \in Procs |-> <<>>]
    /\ wrote = [p \in Procs |-> FALSE]
    /\ appended = [p \in Procs |-> FALSE]
    /\ current = [p \in Procs |-> FALSE]
    /\ writes = {}
    /\ history = <<>>
    /\ concurrency = 3
    /\ started = 0
    /\ NoIngress
    /\ aggregate = NoAggregate
    /\ publication = NoPublication
    /\ batch = NoBatch

NextREST ==
    \E p \in Procs :
        \/ CallCreateFabric(p)
        \/ CallUpdateFabric(p)
        \/ CallDeleteFabric(p)
        \/ CreateNew(p)
        \/ SaveSelect(p)
        \/ SaveInsert(p)
        \/ UpdateGet(p)
        \/ UpdateApply(p)
        \/ UpdateWrite(p)
        \/ DeleteGet(p)
        \/ DeleteApply(p)
        \/ DeleteWrite(p)
        \/ Store(p)
        \/ Publish(p)

SpecThree == InitThree /\ [][NextREST]_vars

----------------------------------------------------------------------------
(* The command service called directly, as its unit tests call it: the     *)
(* context is whatever the caller made it                                  *)

\* context.Background(), or a context marked by WithCommandSource with one
\* of the two declared sources
ContextSources == {NoCommandSource, CommandSourceREST, CommandSourceEvent}

ServiceCreateFabric(p) ==
    \E code \in Codes, name \in CreateNames, source \in ContextSources :
        Begin(p, [kind |-> "create", code |-> code, name |-> name,
                  measureUnit |-> "m", offerStatus |-> "available", version |-> 0,
                  source |-> source, aggregateVersion |-> 0], "create_new")

ServiceUpdateFabric(p) ==
    \E code \in Codes, name \in UpdateNames, version \in 1..MaxVersion,
       source \in ContextSources :
        Begin(p, [kind |-> "update", code |-> code, name |-> name,
                  measureUnit |-> "m", offerStatus |-> "available",
                  version |-> version, source |-> source,
                  aggregateVersion |-> 0], "update_get")

ServiceDeleteFabric(p) ==
    \E code \in Codes, version \in 1..MaxVersion, source \in ContextSources :
        Begin(p, [kind |-> "delete", code |-> code, name |-> <<>>,
                  measureUnit |-> "", offerStatus |-> "", version |-> version,
                  source |-> source, aggregateVersion |-> 0], "delete_get")

NextDirect ==
    \E p \in Procs :
        \/ ServiceCreateFabric(p)
        \/ ServiceUpdateFabric(p)
        \/ ServiceDeleteFabric(p)
        \/ CreateNew(p)
        \/ SaveSelect(p)
        \/ SaveInsert(p)
        \/ UpdateGet(p)
        \/ UpdateApply(p)
        \/ UpdateWrite(p)
        \/ DeleteGet(p)
        \/ DeleteApply(p)
        \/ DeleteWrite(p)
        \/ Store(p)
        \/ Publish(p)

SpecDirect == InitSequential /\ [][NextDirect]_vars

----------------------------------------------------------------------------
(* The asynchronous path alone: the subscriber hands one message at a time *)
(* to FabricEventHandler, and a message whose handler returned an error is *)
(* delivered again                                                         *)

NextEvents ==
    \E p \in Procs :
        \/ handleCreateEvent(p)
        \/ handleUpdateEvent(p)
        \/ handleDeleteEvent(p)
        \/ CreateNew(p)
        \/ SaveSelect(p)
        \/ SaveInsert(p)
        \/ UpdateGet(p)
        \/ UpdateApply(p)
        \/ UpdateWrite(p)
        \/ DeleteGet(p)
        \/ DeleteApply(p)
        \/ DeleteWrite(p)
        \/ Store(p)

SpecEvents == InitSequential /\ [][NextEvents]_vars

----------------------------------------------------------------------------
(* messaging.MessageRouter and FabricEventHandler.HandleMessage: one inbound
   message from the subscriber down to the call of the command service *)

\* a subject is the sequence of its characters
SubjectErpFabric == <<"e", "r", "p", ".", "f", "a", "b", "r", "i", "c">>
SubjectErpFabricUpper == <<"E", "R", "P", ".", "F", "A", "B", "R", "I", "C">>
SubjectErpFabricMixed == <<"E", "r", "p", ".", "F", "a", "b", "r", "i", "c">>
SubjectErpFabrics == <<"e", "r", "p", ".", "f", "a", "b", "r", "i", "c", "s">>
SubjectErpYarn == <<"e", "r", "p", ".", "y", "a", "r", "n">>

\* the subjects messages arrive on
Subjects == {SubjectErpFabric, SubjectErpFabricUpper, SubjectErpFabricMixed,
             SubjectErpFabrics, SubjectErpYarn}

\* the patterns RegisterHandler may have been called with
Patterns == {SubjectErpFabric, SubjectErpFabricUpper, SubjectErpYarn}

UpperLetters == <<"A", "B", "C", "D", "E", "F", "G", "H", "I", "J", "K", "L", "M",
                  "N", "O", "P", "Q", "R", "S", "T", "U", "V", "W", "X", "Y", "Z">>
LowerLetters == <<"a", "b", "c", "d", "e", "f", "g", "h", "i", "j", "k", "l", "m",
                  "n", "o", "p", "q", "r", "s", "t", "u", "v", "w", "x", "y", "z">>

\* simple case folding of one ASCII character
Fold(c) ==
    IF \E i \in DOMAIN UpperLetters : UpperLetters[i] = c
        THEN LowerLetters[CHOOSE i \in DOMAIN UpperLetters : UpperLetters[i] = c]
        ELSE c

\* strings.EqualFold on ASCII text
EqualFold(s, t) ==
    /\ Len(s) = Len(t)
    /\ \A i \in 1..Len(s) : Fold(s[i]) = Fold(t[i])

\* a router that matches the registered text byte for byte
matchesPatternExactly(subject, pattern) == subject = pattern

matchesPattern(subject, pattern) == EqualFold(subject, pattern)

\* the handlers findHandler can return: the exact entry when there is one,
\* else whichever matching entry the iteration over the map meets first
findHandler(registered, subject) ==
    IF subject \in registered THEN {subject}
    ELSE {pattern \in registered : matchesPattern(subject, pattern)}

\* the event types the ERP adapter knows
EventTypeCreated == "erp.fabric.created"
EventTypeUpdated == "erp.fabric.updated"
EventTypeDeleted == "erp.fabric.deleted"

\* an adapter that takes every unknown event type for a creation
EventKindLenient(eventType) ==
    IF eventType = EventTypeUpdated THEN "update"
    ELSE IF eventType = EventTypeDeleted THEN "delete"
    ELSE "create"

\* the switch of adaptEventToCommand
EventKind(eventType) ==
    IF eventType = EventTypeCreated THEN "create"
    ELSE IF eventType = EventTypeUpdated THEN "update"
    ELSE IF eventType = EventTypeDeleted THEN "delete"
    ELSE "unknown"

\* the values of the envelope's "payload" field: absent or null, a JSON string,
\* an object whose fabric_code is a number, an object with text fields
PayloadString == [type |-> "string"]
PayloadMistyped == [type |-> "object", fabric_code |-> 7]
PayloadObjects ==
    [type : {"object"}, fabric_code : {<<>>, <<"F", "1">>},
     fabric_name : {<<>>, <<"C", "o", "t", "t", "o", "n">>}, measure_unit : {"", "m"}, offer_status : {""}]

InboundPayloads ==
    {NilPayload, PayloadEmptyObject, PayloadEmptyString, PayloadString, PayloadMistyped}
        \cup PayloadObjects

\* the bytes of a message: not JSON at all, a JSON string, or a JSON object
\* with the fields of an envelope
BytesInvalid == [json |-> "invalid"]
BytesString == [json |-> "string"]
BytesEnvelopes ==
    [json : {"object"},
     EventType : {"", EventTypeCreated, EventTypeUpdated, EventTypeDeleted,
                  "erp.fabric.renamed"},
     AggregateID : {<<>>, <<"F", "1">>},
     AggregateType : {"", "fabric"},
     AggregateVersion : 0..MaxVersion,
     Payload : InboundPayloads]

InboundBytes == {BytesInvalid, BytesString} \cup BytesEnvelopes

\* json.Unmarshal(payload, &envelope)
UnmarshalEnvelope(bytes) ==
    IF bytes.json # "object" THEN [err |-> "unmarshal", envelope |-> NilPayload]
    ELSE [err |-> Nil,
          envelope |-> [EventType |-> bytes.EventType,
                        AggregateID |-> bytes.AggregateID,
                        AggregateType |-> bytes.AggregateType,
                        AggregateVersion |-> bytes.AggregateVersion,
                        Payload |-> bytes.Payload]]

NoErpFabricEvent == [Code |-> <<>>, Name |-> <<>>, MeasureUnit |-> "", OfferStatus |-> ""]

\* json.Marshal(envelope.Payload) then json.Unmarshal into erpFabricEvent
UnmarshalErpFabricEvent(payload) ==
    IF payload.type # "object" \/ payload = PayloadMistyped
        THEN [err |-> "unmarshal", event |-> NoErpFabricEvent]
    ELSE IF payload = PayloadEmptyObject
        THEN [err |-> Nil, event |-> NoErpFabricEvent]
    ELSE [err |-> Nil,
          event |-> [Code |-> payload.fabric_code, Name |-> payload.fabric_name,
                     MeasureUnit |-> payload.measure_unit,
                     OfferStatus |-> payload.offer_status]]

\* what the command service may answer to the handler's call
ServiceOutcomes ==
    {Nil, ErrDuplicateFabricCode, ErrRecordNotFound, ErrConcurrencyConflict,
     ErrInvalidFabricNameLength, EventStoreErrConcurrencyConflict, StorageError}

Returned(result) == [delivery EXCEPT !.pc = "returned", !.result = result]

\* the subscriber hands a message to the router; the router and the handler
\* keep nothing of one message for the next, so a run follows one message
Receive ==
    /\ delivery.pc = "none"
    /\ \E subject \in Subjects, bytes \in InboundBytes :
        message' = [subject |-> subject, payload |-> bytes]
    /\ delivery' = [NoDelivery EXCEPT !.pc = "router"]
    /\ UNCHANGED <<handlers, serviceVars, aggregate, publication, batch>>

\* MessageRouter.HandleMessage
RouterHandleMessage ==
    /\ delivery.pc = "router"
    /\ IF findHandler(handlers, message.subject) = {}
          THEN delivery' = Returned(Nil)
          ELSE \E handler \in findHandler(handlers, message.subject) :
                  delivery' = [delivery EXCEPT !.pc = "handler", !.handler = handler]
    /\ UNCHANGED <<handlers, message, serviceVars, aggregate, publication, batch>>

\* FabricEventHandler.HandleMessage
HandleMessage ==
    /\ delivery.pc = "handler"
    /\ LET decoded == UnmarshalEnvelope(message.payload)
       IN IF decoded.err # Nil THEN delivery' = Returned(Nil)
          ELSE IF Validate(decoded.envelope) # Nil THEN delivery' = Returned(Nil)
          ELSE delivery' = [delivery EXCEPT !.pc = "adapt"]
    /\ UNCHANGED <<handlers, message, serviceVars, aggregate, publication, batch>>

adaptEventToCommand ==
    /\ delivery.pc = "adapt"
    /\ LET envelope == UnmarshalEnvelope(message.payload).envelope
           decoded == UnmarshalErpFabricEvent(envelope.Payload)
       IN IF decoded.err # Nil THEN delivery' = Returned(Nil)
          ELSE IF EventKind(envelope.EventType) = "unknown"
              THEN delivery' = Returned(Nil)
          ELSE delivery' = [delivery EXCEPT !.pc = EventKind(envelope.EventType)]
    /\ UNCHANGED <<handlers, message, serviceVars, aggregate, publication, batch>>

\* the call of the service and the handler's answer to its error
Invoke(command, kind) ==
    \E e \in ServiceOutcomes :
        delivery' = [delivery EXCEPT
                        !.pc = "returned",
                        !.invoked = command,
                        !.result = IF kind = "create" THEN CreateEventResult(e)
                                   ELSE IF kind = "update" THEN UpdateEventResult(e)
                                   ELSE DeleteEventResult(e)]

\* handleCreateEvent / handleUpdateEvent / handleDeleteEvent on the decoded event
HandleEvent ==
    /\ delivery.pc \in {"create", "update", "delete"}
    /\ LET envelope == UnmarshalEnvelope(message.payload).envelope
           decoded == UnmarshalErpFabricEvent(envelope.Payload).event
           version == envelope.AggregateVersion
       IN IF delivery.pc = "create"
              THEN IF ~validateCreateFabricEvent(withDefaults(decoded))
                       THEN delivery' = Returned(Nil)
                       ELSE Invoke(CreateEventCommand(withDefaults(decoded)), "create")
          ELSE IF delivery.pc = "update"
              THEN IF ~validateUpdateFabricEvent(version, withDefaults(decoded))
                       THEN delivery' = Returned(Nil)
                       ELSE Invoke(UpdateEventCommand(withDefaults(decoded), version),
                                   "update")
          ELSE Invoke(DeleteEventCommand(decoded, version), "delete")
    /\ UNCHANGED <<handlers, message, serviceVars, aggregate, publication, batch>>

\* the router after Subscribers.Start registered its handlers; no command runs
InitIngress ==
    /\ fabrics = <<>>
    /\ events = {}
    /\ pc = [p \in Procs |-> "idle"]
    /\ cmd = [p \in Procs |-> NoCommand]
    /\ fabric = [p \in Procs |-> NoFabric]
    /\ envelopes = [p \in Procs |-> <<>>]
    /\ err = [p \in Procs |-> Nil]
    /\ offered = [p \in Procs |-> <<>>]
    /\ wrote = [p \in Procs |-> FALSE]
    /\ appended = [p \in Procs |-> FALSE]
    /\ current = [p \in Procs |-> FALSE]
    /\ writes = {}
    /\ history = <<>>
    /\ concurrency = 0
    /\ started = 0
    /\ handlers \in SUBSET Patterns
    /\ message = NoMessage
    /\ delivery = NoDelivery
    /\ aggregate = NoAggregate
    /\ publication = NoPublication
    /\ batch = NoBatch

NextIngress ==
    \/ Receive
    \/ RouterHandleMessage
    \/ HandleMessage
    \/ adaptEventToCommand
    \/ HandleEvent

SpecIngress == InitIngress /\ [][NextIngress]_vars

----------------------------------------------------------------------------
(* the two callers of EventEnvelope.Validate, on envelopes of any content *)

\* envelopes a caller may hand to NatsPublisher.Publish: the struct is
\* exported, so every field may hold its zero value
OutboundPayloads ==
    {NilPayload, PayloadEmptyObject, PayloadEmptyString,
     [type |-> "FabricCreated", Code |-> <<"F", "1">>, Version |-> 1,
      Name |-> <<"C", "o", "t", "t", "o", "n">>, MeasureUnit |-> "m",
      OfferStatus |-> "available"]}

OutboundEnvelopes ==
    [EventType : {"", "app.fabric.created"},
     EventVersion : {1},
     AggregateID : {<<>>, <<"F", "1">>},
     AggregateType : {"", "Fabric"},
     AggregateVersion : {1},
     Payload : OutboundPayloads]

\* NatsPublisher.Publish called with one envelope: sent is what was handed
\* to conn.Publish
NatsPublisherPublish ==
    /\ publication.pc = "none"
    /\ \E envelope \in OutboundEnvelopes : \E e \in PublishOutcomes(envelope) :
          publication' =
              [pc |-> "returned", envelope |-> envelope, err |-> e,
               sent |-> IF e = "invalid event envelope" THEN <<>> ELSE <<envelope>>]
    /\ UNCHANGED <<serviceVars, ingressVars, aggregate, batch>>

\* the router with the one handler the application registers, "erp.fabric"
InitEnvelope ==
    /\ fabrics = <<>>
    /\ events = {}
    /\ pc = [p \in Procs |-> "idle"]
    /\ cmd = [p \in Procs |-> NoCommand]
    /\ fabric = [p \in Procs |-> NoFabric]
    /\ envelopes = [p \in Procs |-> <<>>]
    /\ err = [p \in Procs |-> Nil]
    /\ offered = [p \in Procs |-> <<>>]
    /\ wrote = [p \in Procs |-> FALSE]
    /\ appended = [p \in Procs |-> FALSE]
    /\ current = [p \in Procs |-> FALSE]
    /\ writes = {}
    /\ history = <<>>
    /\ concurrency = 0
    /\ started = 0
    /\ handlers = {SubjectErpFabric}
    /\ message = NoMessage
    /\ delivery = NoDelivery
    /\ aggregate = NoAggregate
    /\ publication = NoPublication
    /\ batch = NoBatch

NextEnvelope ==
    \/ NextIngress
    \/ NatsPublisherPublish

SpecEnvelope == InitEnvelope /\ [][NextEnvelope]_vars

----------------------------------------------------------------------------
(* PostgresStore.Save called with batches of any length *)

MaxAppends == 3
MaxBatch == 2
MaxBatchVersion == 3

\* the envelopes of call n: NewEventEnvelope gives each a fresh EventID
BatchEnvelope(n, i, version) ==
    [EventID |-> <<n, i>>, EventType |-> "app.fabric.updated", EventVersion |-> 1,
     AggregateID |-> <<"F", "1">>, AggregateType |-> "Fabric",
     AggregateVersion |-> version,
     Payload |-> [type |-> "FabricUpdated", Code |-> <<"F", "1">>,
                  Version |-> version]]

Batches(n) ==
    UNION {{[i \in 1..k |-> BatchEnvelope(n, i, versions[i])] :
                versions \in [1..k -> 1..MaxBatchVersion]} : k \in 0..MaxBatch}

\* Save(ctx, envelopes...): BeginTx, one INSERT per envelope, Commit, with a
\* deferred Rollback; a driver failure anywhere leaves the table as it was
PostgresStoreSave ==
    /\ batch.calls < MaxAppends
    /\ \E envs \in Batches(batch.calls + 1) :
          LET r == EventStoreSave(events, envs)
          IN \/ /\ events' = r.events
                /\ batch' = [envelopes |-> envs, err |-> r.err,
                             calls |-> batch.calls + 1]
             \/ /\ events' = events
                /\ batch' = [envelopes |-> envs, err |-> StorageError,
                             calls |-> batch.calls + 1]
    /\ UNCHANGED <<fabrics, pc, cmd, fabric, envelopes, err, offered, wrote,
                   appended, current, writes, history, concurrency, started,
                   ingressVars, aggregate, publication>>

\* an empty table events; no command and no message in the run
InitEventStore ==
    /\ fabrics = <<>>
    /\ events = {}
    /\ pc = [p \in Procs |-> "idle"]
    /\ cmd = [p \in Procs |-> NoCommand]
    /\ fabric = [p \in Procs |-> NoFabric]
    /\ envelopes = [p \in Procs |-> <<>>]
    /\ err = [p \in Procs |-> Nil]
    /\ offered = [p \in Procs |-> <<>>]
    /\ wrote = [p \in Procs |-> FALSE]
    /\ appended = [p \in Procs |-> FALSE]
    /\ current = [p \in Procs |-> FALSE]
    /\ writes = {}
    /\ history = <<>>
    /\ concurrency = 0
    /\ started = 0
    /\ NoIngress
    /\ aggregate = NoAggregate
    /\ publication = NoPublication
    /\ batch = NoBatch

NextEventStore == PostgresStoreSave

SpecEventStore == InitEventStore /\ [][NextEventStore]_vars

----------------------------------------------------------------------------
(* domain.Fabric on its own: NewFabric, then UpdateFabric, Delete and
   Reactivate called on the one instance *)

\* the calls made on one instance, NewFabric included
MaxOperations == 4

Repeat(c, n) == [i \in 1..n |-> c]

\* codes around the limits of validateCode: too short, shortest, longest, too
\* long, lower case, a character outside the pattern
AggregateCodes ==
    {<<>>, <<"F">>, <<"F", "1">>, Repeat("A", MaxCodeLen), Repeat("A", MaxCodeLen + 1),
     <<"z", "o", "y", "a">>, <<"Z", "O", "Y", "_", "A">>}

\* names around the limits of validateName: empty, short, 250 and 251 ASCII
\* characters, and names of two-byte characters of 250 and of 252 bytes
LongestName == Repeat("a", MaxNameLen)
TooLongName == Repeat("a", MaxNameLen + 1)
WideName == Repeat("U+017C", MaxNameLen \div 2)
WiderName == Repeat("U+017C", MaxNameLen \div 2 + 1)

CreationNames ==
    {<<>>, <<"C", "o", "t", "t", "o", "n">>, LongestName, TooLongName,
     WideName, WiderName}

\* the names later calls carry
MutationNames == {<<>>, <<"S", "i", "l", "k">>, TooLongName}

\* the versions callers present
PresentedVersions == 1..MaxOperations

\* the arguments of a method call; Delete takes the version only
Args(name, measureUnit, offerStatus, version) ==
    [name |-> name, measureUnit |-> measureUnit, offerStatus |-> offerStatus,
     version |-> version]

\* what a call leaves: the instance, the error returned, and for the record
\* the call's name and arguments, the arguments of NewFabric, the number of
\* calls and of calls that returned nil
Outcome(r, op, input, args) ==
    [fabric |-> r.fabric, err |-> r.err, op |-> op, input |-> input,
     args |-> args,
     calls |-> aggregate.calls + 1,
     mutations |-> aggregate.mutations + (IF r.err = Nil THEN 1 ELSE 0)]

ApplyNewFabric ==
    /\ aggregate.op = "none"
    /\ \E code \in AggregateCodes, name \in CreationNames,
          measureUnit \in MeasureUnits, offerStatus \in OfferStatuses :
        aggregate' = Outcome(NewFabric(code, name, measureUnit, offerStatus),
                             "NewFabric",
                             [code |-> code, name |-> name,
                              measureUnit |-> measureUnit,
                              offerStatus |-> offerStatus],
                             Args(name, measureUnit, offerStatus, 0))
    /\ UNCHANGED <<serviceVars, ingressVars, publication, batch>>

\* a method can be called once NewFabric returned an instance
Callable ==
    /\ aggregate.fabric # NoFabric
    /\ aggregate.calls < MaxOperations

ApplyUpdateFabric ==
    /\ Callable
    /\ \E name \in MutationNames, version \in PresentedVersions :
        aggregate' = Outcome(UpdateFabric(aggregate.fabric, name, DefaultMeasureUnit,
                                          DefaultOfferStatus, version),
                             "UpdateFabric", aggregate.input,
                             Args(name, DefaultMeasureUnit, DefaultOfferStatus,
                                  version))
    /\ UNCHANGED <<serviceVars, ingressVars, publication, batch>>

ApplyDelete ==
    /\ Callable
    /\ \E version \in PresentedVersions :
        aggregate' = Outcome(Delete(aggregate.fabric, version), "Delete",
                             aggregate.input, Args(<<>>, "", "", version))
    /\ UNCHANGED <<serviceVars, ingressVars, publication, batch>>

ApplyReactivate ==
    /\ Callable
    /\ \E name \in MutationNames, version \in PresentedVersions :
        aggregate' = Outcome(Reactivate(aggregate.fabric, name, DefaultMeasureUnit,
                                        DefaultOfferStatus, version),
                             "Reactivate", aggregate.input,
                             Args(name, DefaultMeasureUnit, DefaultOfferStatus,
                                  version))
    /\ UNCHANGED <<serviceVars, ingressVars, publication, batch>>

\* no instance yet; no command and no message in the run
InitAggregate ==
    /\ fabrics = <<>>
    /\ events = {}
    /\ pc = [p \in Procs |-> "idle"]
    /\ cmd = [p \in Procs |-> NoCommand]
    /\ fabric = [p \in Procs |-> NoFabric]
    /\ envelopes = [p \in Procs |-> <<>>]
    /\ err = [p \in Procs |-> Nil]
    /\ offered = [p \in Procs |-> <<>>]
    /\ wrote = [p \in Procs |-> FALSE]
    /\ appended = [p \in Procs |-> FALSE]
    /\ current = [p \in Procs |-> FALSE]
    /\ writes = {}
    /\ history = <<>>
    /\ concurrency = 0
    /\ started = 0
    /\ NoIngress
    /\ aggregate = NoAggregate
    /\ publication = NoPublication
    /\ batch = NoBatch

NextAggregate ==
    \/ ApplyNewFabric
    \/ ApplyUpdateFabric
    \/ ApplyDelete
    \/ ApplyReactivate

SpecAggregate == InitAggregate /\ [][NextAggregate]_vars

----------------------------------------------------------------------------
(* Properties *)

Done(p) == pc[p] = "done"

\* two completed updateFabric commands of one code with the same
\* expectedVersion, both called while the ACTIVE row was at that version,
\* neither of them hit by a storage failure
SameVersionUpdates(p, q) ==
    /\ p # q
    /\ Done(p) /\ Done(q)
    /\ cmd[p].kind = "update" /\ cmd[q].kind = "update"
    /\ cmd[p].code = cmd[q].code
    /\ cmd[p].version = cmd[q].version
    /\ current[p] /\ current[q]
    /\ err[p] # StorageError /\ err[q] # StorageError

\* C1 as the specification states it: of two updateFabric commands that carry
\* the stored version of an ACTIVE aggregate and run concurrently, exactly one
\* succeeds and the other fails with ErrConcurrencyConflict.
C1_LoserGetsConcurrencyConflict ==
    \A p, q \in Procs :
        SameVersionUpdates(p, q) =>
            \/ err[p] = Nil /\ err[q] = ErrConcurrencyConflict
            \/ err[q] = Nil /\ err[p] = ErrConcurrencyConflict

\* C1 amended: of two updateFabric commands that carry the stored version of
\* an ACTIVE aggregate and run concurrently without a storage failure,
\* exactly one succeeds; the other fails with ErrConcurrencyConflict when it
\* read the row after the winner's write (its aggregate check failed), and
\* with ErrRecordNotFound when it read the row before (its aggregate check
\* passed and its conditional write matched no row).
C1_ExactlyOneUpdateWins ==
    \A p, q \in Procs :
        SameVersionUpdates(p, q) =>
            \/ /\ err[p] = Nil
               /\ err[q] \in {ErrConcurrencyConflict, ErrRecordNotFound}
               /\ err[q] = ErrRecordNotFound <=> fabric[q].events # <<>>
            \/ /\ err[q] = Nil
               /\ err[p] \in {ErrConcurrencyConflict, ErrRecordNotFound}
               /\ err[p] = ErrRecordNotFound <=> fabric[p].events # <<>>

\* both commands read version v, the first write wins, the second matches no row
C1_Witness ==
    \E p, q \in Procs :
        /\ SameVersionUpdates(p, q)
        /\ err[p] = Nil
        /\ err[q] = ErrRecordNotFound

\* C2: for every code and version v at most one command commits a state-store
\* write among the commands that started from version v; every other writer
\* that started from v writes nothing.
C2_OneWriterPerVersion ==
    \A w1, w2 \in writes :
        (w1.code = w2.code /\ w1.base = w2.base) => w1 = w2

\* C3: deleteFabric called with the stored version v of an ACTIVE aggregate
\* succeeds, leaves the row at version v + 1 with status DELETED, and the
\* active-only lookup of the code finds nothing.
C3_DeleteAtStoredVersionSucceeds ==
    \A p \in Procs :
        (/\ Done(p)
         /\ cmd[p].kind = "delete"
         /\ current[p]
         /\ err[p] # StorageError)
        => /\ err[p] = Nil
           /\ \E i \in RowsOf(fabrics, cmd[p].code) :
                 /\ fabrics[i].version = cmd[p].version + 1
                 /\ fabrics[i].status = StatusDeleted
           /\ ActiveRowsOf(fabrics, cmd[p].code) = {}

\* the one-at-a-time run "create, delete at the stored version, create again"
\* of one code has just returned from its third command, without a storage
\* failure in the delete or in the second create
CreateDeleteCreate ==
    /\ Len(history) = 3
    /\ Done(1)
    /\ history[1].kind = "create" /\ history[1].err = Nil
    /\ history[2].kind = "delete" /\ history[2].current
    /\ history[2].err # StorageError
    /\ history[3].kind = "create" /\ history[3].err # StorageError

\* C4: creating a code, deleting it at its stored version and creating it again
\* succeeds and leaves the code ACTIVE at version 3, never back at version 1,
\* and the second create emits exactly one event, a "reactivated" one.
C4_RecreateContinuesVersion ==
    CreateDeleteCreate =>
        /\ err[1] = Nil
        /\ \A i \in RowsOf(fabrics, cmd[1].code) :
              fabrics[i].version = 3 /\ fabrics[i].status = StatusActive
        /\ RowsOf(fabrics, cmd[1].code) # {}
        /\ Len(envelopes[1]) = 1
        /\ envelopes[1][1].EventType = "app.fabric.reactivated"

\* C5: a committed statement on table fabrics that changes a row raises its
\* version by exactly one, a new row starts at version 1, no row disappears,
\* so a stored version is at least 1 and never decreases.
C5_VersionIncrementsByOne ==
    [][/\ Len(fabrics') >= Len(fabrics)
       /\ \A i \in DOMAIN fabrics' :
             IF i \in DOMAIN fabrics
               THEN fabrics'[i] # fabrics[i]
                      => fabrics'[i].version = fabrics[i].version + 1
               ELSE fabrics'[i].version = 1]_vars

\* the Store step of p returns the event store's conflict
StoreConflict(p) ==
    /\ pc[p] = "store"
    /\ pc'[p] = "done"
    /\ err'[p] = EventStoreErrConcurrencyConflict

\* an envelope of the batch of p meets a recorded event of its aggregate version
Duplicates(store, envs) ==
    \E i \in DOMAIN envs : \E s \in store :
        /\ s.AggregateID = envs[i].AggregateID
        /\ s.AggregateVersion = envs[i].AggregateVersion

\* C6: table events never holds two events of one (aggregate id, aggregate
\* version); an append whose batch would add such a duplicate records nothing
\* and fails, with eventstore.ErrConcurrencyConflict unless the driver failed,
\* and that error is returned for no other reason.
C6_UniqueAggregateVersion ==
    [][/\ \A e1, e2 \in events' :
             (/\ e1.AggregateID = e2.AggregateID
              /\ e1.AggregateVersion = e2.AggregateVersion) => e1 = e2
       /\ \A p \in Procs :
             /\ (pc[p] = "store" /\ pc'[p] # "store"
                   /\ Duplicates(events, envelopes'[p]))
                  => /\ events' = events
                     /\ pc'[p] = "done"
                     /\ ~appended'[p]
                     /\ err'[p] \in {EventStoreErrConcurrencyConflict, StorageError}
             /\ StoreConflict(p)
                  => /\ events' = events
                     /\ Duplicates(events, envelopes'[p])]_vars

\* a command has returned the event store's conflict: its batch met the event
\* another command recorded for the same aggregate version
C6_Witness ==
    \E p \in Procs :
        /\ Done(p)
        /\ err[p] = EventStoreErrConcurrencyConflict
        /\ wrote[p] /\ ~appended[p]
        /\ Duplicates(events, envelopes[p])
        /\ \A i \in DOMAIN envelopes[p] : envelopes[p][i] \notin events

\* the statement that an event type reports
OpsOf(eventType) ==
    IF eventType = "app.fabric.created" THEN {"insert"}
    ELSE IF eventType = "app.fabric.reactivated" THEN {"reactivate"}
    ELSE IF eventType = "app.fabric.updated" THEN {"update"}
    ELSE IF eventType = "app.fabric.deleted" THEN {"delete"}
    ELSE {}

\* C7: in every state, also the ones a crash or a failure leaves behind, each
\* recorded event of (code, v) has a committed state-store statement of its
\* kind that left the code at version v, and a command is at or past its
\* append only when its own state-store write has committed.
C7_EventAfterCommittedWrite ==
    /\ \A e \in events :
          \E w \in writes :
              /\ w.code = e.AggregateID
              /\ w.version = e.AggregateVersion
              /\ w.op \in OpsOf(e.EventType)
    /\ \A p \in Procs :
          (pc[p] \in {"store", "publish"} \/ appended[p]) => wrote[p]

\* a conditional write matched no row and its command returned before the
\* append, while the winner's event is on record
C7_Witness ==
    \E p, q \in Procs :
        /\ Done(p) /\ Done(q)
        /\ cmd[p].kind = "update" /\ wrote[p] /\ appended[p]
        /\ envelopes[p] # <<>> /\ envelopes[p][1] \in events
        /\ err[q] = ErrRecordNotFound /\ fabric[q].events # <<>>
        /\ ~wrote[q] /\ ~appended[q]

\* C8: a command returns success only when both its state-store write and its
\* event-store append succeeded; a command whose write committed and whose
\* append failed returns an error, and the failed append recorded nothing.
C8_SuccessNeedsBothWrites ==
    \A p \in Procs :
        Done(p) =>
            /\ err[p] = Nil => (wrote[p] /\ appended[p])
            /\ (wrote[p] /\ ~appended[p]) => err[p] # Nil
            /\ appended[p] => \A i \in DOMAIN envelopes[p] : envelopes[p][i] \in events

\* the state write committed, the append failed, the command returned the error
C8_Witness ==
    \E p \in Procs :
        /\ Done(p)
        /\ wrote[p] /\ ~appended[p]
        /\ envelopes[p] # <<>>
        /\ err[p] = StorageError
        /\ \E w \in writes : w.code = cmd[p].code /\ w.version = fabric[p].Version

\* C9: a successful command whose context is marked REST has offered each of
\* its envelopes, in order, to the publisher; a command whose context is
\* marked as coming from the event path never reaches the publisher.
C9_PublishIffFromREST ==
    \A p \in Procs :
        /\ (Done(p) /\ err[p] = Nil /\ cmd[p].source = CommandSourceREST)
             => /\ envelopes[p] # <<>>
                /\ Len(offered[p]) = Len(envelopes[p])
                /\ \A i \in DOMAIN envelopes[p] :
                      offered[p][i].envelope = envelopes[p][i]
        /\ cmd[p].source = CommandSourceEvent
             => (offered[p] = <<>> /\ pc[p] # "publish")
        /\ offered[p] # <<>>
             => (cmd[p].source = CommandSourceREST /\ wrote[p] /\ appended[p])

\* two successful commands side by side: the REST one has offered its
\* envelope, the event-path one has recorded its event and offered nothing
C9_Witness ==
    \E p, q \in Procs :
        /\ Done(p) /\ err[p] = Nil /\ cmd[p].source = CommandSourceREST
        /\ offered[p] # <<>>
        /\ Done(q) /\ err[q] = Nil /\ cmd[q].source = CommandSourceEvent
        /\ appended[q] /\ offered[q] = <<>>

\* the Publish loop of p has run and some call returned an error
PublishFailed(p) ==
    /\ pc[p] = "publish"
    /\ pc'[p] = "done"
    /\ \E i \in DOMAIN offered'[p] : offered'[p][i].err # Nil

\* C10: when Publish returns an error for an envelope, the command, whose
\* state write and append had succeeded, still returns success, every envelope
\* has been offered to the publisher, and table fabrics and table events are
\* as they were before the loop.
C10_PublishFailureIsNotFatal ==
    [][\A p \in Procs :
          PublishFailed(p) =>
              /\ err'[p] = Nil
              /\ wrote[p] /\ appended[p]
              /\ Len(offered'[p]) = Len(envelopes[p])
              /\ \A i \in DOMAIN envelopes[p] :
                    offered'[p][i].envelope = envelopes[p][i]
              /\ fabrics' = fabrics
              /\ events' = events]_vars

\* a command has returned success although the publisher refused its envelope
C10_Witness ==
    \E p \in Procs :
        /\ Done(p)
        /\ err[p] = Nil
        /\ \E i \in DOMAIN offered[p] : offered[p][i].err # Nil
        /\ \A i \in DOMAIN envelopes[p] : envelopes[p][i] \in events

\* the errors of the domain package that an aggregate operation returns
DomainErrors ==
    {ErrInvalidFabricCodeLength, ErrInvalidFabricCodePattern,
     ErrInvalidFabricNameLength, ErrConcurrencyConflict, ErrFabricDeleted}

\* p is about to apply its aggregate operation and the operation must fail:
\* invalid code or name, a version other than the aggregate's, a deleted aggregate
OperationFails(p) ==
    \/ /\ pc[p] = "create_new"
       /\ (validateCode(cmd[p].code) # Nil \/ validateName(cmd[p].name) # Nil)
    \/ /\ pc[p] = "update_apply"
       /\ \/ fabric[p].Status = StatusDeleted
          \/ fabric[p].Version # cmd[p].version
          \/ validateName(cmd[p].name) # Nil
    \/ /\ pc[p] = "delete_apply"
       /\ \/ fabric[p].Status = StatusDeleted
          \/ fabric[p].Version # cmd[p].version

\* C11: when the aggregate operation of a command fails, the command returns
\* that domain error at once: table fabrics and table events stay as they
\* are, the command has written nothing, appended nothing, built no envelope
\* and offered nothing to the publisher, and its aggregate is untouched.
C11_DomainFailureTouchesNoStorage ==
    [][\A p \in Procs :
          (OperationFails(p) /\ pc'[p] # pc[p]) =>
              /\ pc'[p] = "done"
              /\ err'[p] \in DomainErrors
              /\ fabrics' = fabrics
              /\ events' = events
              /\ writes' = writes
              /\ fabric'[p] = fabric[p]
              /\ ~wrote'[p] /\ ~appended'[p]
              /\ envelopes'[p] = <<>>
              /\ offered'[p] = <<>>]_vars

\* an update that carried a stale version has returned the conflict and left
\* the row another command wrote as it was
C11_Witness ==
    \E p \in Procs :
        /\ Done(p)
        /\ cmd[p].kind = "update"
        /\ err[p] = ErrConcurrencyConflict
        /\ fabric[p].Version # cmd[p].version
        /\ fabric[p].events = <<>>
        /\ ~wrote[p] /\ ~appended[p] /\ offered[p] = <<>>
        /\ \E i \in ActiveRowsOf(fabrics, cmd[p].code) : Scan(fabrics[i]) = fabric[p]

\* what the event handler of a command's kind returns for the error e
EventResult(kind, e) ==
    IF kind = "create" THEN CreateEventResult(e)
    ELSE IF kind = "update" THEN UpdateEventResult(e)
    ELSE DeleteEventResult(e)

\* p handles a "created" event for a code that had an ACTIVE row when the
\* message arrived
ReplayedCreate(p) ==
    /\ InFlight(p)
    /\ cmd[p].kind = "create"
    /\ cmd[p].source = CommandSourceEvent
    /\ current[p]

\* C12: in a one-at-a-time run, a "created" event for a code that is already
\* ACTIVE changes nothing: every step of its command leaves table fabrics
\* (one row of the code, same version and fields) and table events as they
\* are, nothing is written, appended or offered to the publisher, and unless
\* the storage failed the handler returns nil.
C12_ReplayedCreateIsNoOp ==
    [][\A p \in Procs :
          ReplayedCreate(p) =>
              /\ fabrics' = fabrics
              /\ Cardinality(RowsOf(fabrics', cmd[p].code)) = 1
              /\ events' = events
              /\ writes' = writes
              /\ ~wrote'[p] /\ ~appended'[p]
              /\ offered'[p] = <<>>
              /\ (pc'[p] = "done" /\ err'[p] # StorageError)
                   => /\ err'[p] = ErrDuplicateFabricCode
                      /\ EventResult(cmd[p].kind, err'[p]) = Nil]_vars

\* the code was created, then a "created" event for it was handled: the
\* service reported the duplicate, the handler acknowledged the message
C12_Witness ==
    \E p \in Procs :
        /\ Len(history) = 2
        /\ history[1].kind = "create" /\ history[1].err = Nil
        /\ Done(p)
        /\ cmd[p].kind = "create" /\ cmd[p].source = CommandSourceEvent
        /\ current[p]
        /\ err[p] = ErrDuplicateFabricCode
        /\ EventResult(cmd[p].kind, err[p]) = Nil
        /\ Cardinality(RowsOf(fabrics, cmd[p].code)) = 1
        /\ events = {e \in events : e.EventType = "app.fabric.created"}
        /\ Cardinality(events) = 1

\* p runs the command of an inbound event of this kind
FromEvent(p, kind) ==
    /\ cmd[p].kind = kind
    /\ cmd[p].source = CommandSourceEvent

\* C13: an "updated" event whose envelope carries aggregate version n is
\* applied with expectedVersion n - 1; in a one-at-a-time run without storage
\* failure it succeeds exactly when the stored ACTIVE version was n - 1 at the
\* call, and then the stored version is n.
C13_UpdatedEventExpectsPreviousVersion ==
    \A p \in Procs :
        FromEvent(p, "update") =>
            /\ cmd[p].version = cmd[p].aggregateVersion - 1
            /\ (Done(p) /\ err[p] # StorageError)
                 => /\ err[p] = Nil <=> current[p]
                    /\ wrote[p] <=> current[p]
                    /\ err[p] = Nil
                         => ActiveVersion(fabrics, cmd[p].code) = cmd[p].aggregateVersion

\* an "updated" event carrying version 2 was applied to the row at version 1
C13_Witness ==
    \E p \in Procs :
        /\ Done(p)
        /\ FromEvent(p, "update")
        /\ cmd[p].aggregateVersion = 2
        /\ cmd[p].version = 1
        /\ current[p]
        /\ err[p] = Nil
        /\ ActiveVersion(fabrics, cmd[p].code) = 2

\* C14: a "deleted" event whose envelope carries aggregate version n is
\* applied with expectedVersion n - 1, the alignment of "updated" events.
C14_DeletedEventExpectsPreviousVersion ==
    \A p \in Procs :
        FromEvent(p, "delete") =>
            cmd[p].version = cmd[p].aggregateVersion - 1

\* the failures of a command that are no fault of the infrastructure
BenignErrors ==
    {ErrRecordNotFound, ErrConcurrencyConflict, ErrDuplicateFabricCode,
     ErrInvalidFabricCodeLength, ErrInvalidFabricCodePattern,
     ErrInvalidFabricNameLength}

RESTStatus(kind, e) ==
    IF kind = "create" THEN createFabricStatus(e)
    ELSE IF kind = "update" THEN updateFabricStatus(e)
    ELSE deleteFabricStatus(e)

\* C16: a command that failed with the event store's ConcurrencyConflict is
\* answered as a conflict (409) to the REST caller, and on the event path the
\* handler returns nil, as for the domain's ConcurrencyConflict.
C16_EventStoreConflictIsAConflict ==
    \A p \in Procs :
        (Done(p) /\ err[p] = EventStoreErrConcurrencyConflict) =>
            /\ cmd[p].source = CommandSourceREST
                 => RESTStatus(cmd[p].kind, err[p]) = StatusConflict
            /\ cmd[p].source = CommandSourceEvent
                 => EventResult(cmd[p].kind, err[p]) = Nil

\* the four ways a message can be malformed, read off the message itself:
\* bytes that are no JSON object, an envelope with a required field missing,
\* a payload that is no object of text fields, an event type outside the
\* three the adapter knows
Malformed(m) ==
    \/ m.payload.json # "object"
    \/ /\ m.payload.json = "object"
       /\ \/ m.payload.EventType = ""
          \/ m.payload.AggregateID = <<>>
          \/ m.payload.AggregateType = ""
          \/ UnmarshalErpFabricEvent(m.payload.Payload).err # Nil
          \/ m.payload.EventType \notin
                {EventTypeCreated, EventTypeUpdated, EventTypeDeleted}

\* C17: a malformed message (undecodable bytes, an envelope that fails
\* validation, an undecodable payload, an unknown event type) is dropped:
\* the handler returns nil and no operation of the service is invoked.
C17_MalformedMessageIsDropped ==
    (delivery.pc = "returned" /\ Malformed(message))
        => /\ delivery.result = Nil
           /\ delivery.invoked = NoCommand

\* a routed message of an unknown event type, otherwise fit to create a
\* fabric, has been returned
C17_Witness ==
    /\ delivery.pc = "returned"
    /\ delivery.handler # <<>>
    /\ message.payload.json = "object"
    /\ message.payload.EventType = "erp.fabric.renamed"
    /\ message.payload.AggregateID # <<>>
    /\ message.payload.AggregateType # ""
    /\ message.payload.Payload \in PayloadObjects
    /\ validateCreateFabricEvent(
           withDefaults(UnmarshalErpFabricEvent(message.payload.Payload).event))

\* two characters are the same letter in either case, or the same character
SameLetter(c, d) ==
    \/ c = d
    \/ \E i \in DOMAIN UpperLetters :
          {c, d} = {UpperLetters[i], LowerLetters[i]}

EqualIgnoringCase(s, t) ==
    /\ Len(s) = Len(t)
    /\ \A i \in 1..Len(s) : SameLetter(s[i], t[i])

Routed == delivery.pc \notin {"none", "router"}

ValidCreationInput(input) ==
    /\ Len(input.code) >= 2
    /\ Len(input.code) <= 30
    /\ \A i \in 1..Len(input.code) : input.code[i] \in CodeAlphabet
    /\ Len(input.name) >= 1
    /\ Len(input.name) <= 250

\* C19: for every valid creation input NewFabric yields version 1, status
\* ACTIVE and exactly one pending event, a FabricCreated carrying the given
\* code, name, unit, offer status and version 1; for every invalid code or
\* name it returns an error and no aggregate.
C19_NewFabricOnEveryInput ==
    aggregate.op = "NewFabric" =>
        IF ValidCreationInput(aggregate.input)
            THEN /\ aggregate.err = Nil
                 /\ aggregate.fabric # NoFabric
                 /\ aggregate.fabric.Version = 1
                 /\ aggregate.fabric.Status = StatusActive
                 /\ aggregate.fabric.events =
                        <<[type |-> "FabricCreated",
                           Code |-> aggregate.input.code,
                           Name |-> aggregate.input.name,
                           MeasureUnit |-> aggregate.input.measureUnit,
                           OfferStatus |-> aggregate.input.offerStatus,
                           Version |-> 1]>>
            ELSE /\ aggregate.err # Nil
                 /\ aggregate.fabric = NoFabric

\* a call on the instance has just returned
Called == aggregate'.calls = aggregate.calls + 1

EventsOf(a) == IF a.fabric = NoFabric THEN <<>> ELSE a.fabric.events

\* C20: over every sequence of NewFabric followed by UpdateFabric, Delete
\* and Reactivate calls on one instance, a call that succeeds raises the
\* version by exactly 1 and appends exactly one event whose Version is the
\* new version, a call that fails changes nothing, and so the version, the
\* number of successful calls and the number of pending events are equal.
C20_VersionCountsMutations ==
    [][Called =>
        /\ IF aggregate'.err = Nil
              THEN /\ aggregate'.fabric.Version = aggregate.fabric.Version + 1
                   /\ Len(EventsOf(aggregate')) = Len(EventsOf(aggregate)) + 1
                   /\ SubSeq(EventsOf(aggregate'), 1, Len(EventsOf(aggregate)))
                         = EventsOf(aggregate)
                   /\ EventsOf(aggregate')[Len(EventsOf(aggregate'))].Version
                         = aggregate'.fabric.Version
              ELSE aggregate'.fabric = aggregate.fabric
        /\ aggregate'.fabric.Version = aggregate'.mutations
        /\ Len(EventsOf(aggregate')) = aggregate'.mutations]_vars

\* one instance was created, updated, deleted and reactivated, each call
\* succeeding
C20_Witness ==
    /\ aggregate.mutations = 4
    /\ aggregate.fabric # NoFabric
    /\ aggregate.fabric.Version = 4
    /\ [i \in 1..4 |-> aggregate.fabric.events[i].type]
          = <<"FabricCreated", "FabricUpdated", "FabricDeleted", "FabricReactivated">>

\* a method call on the instance has just returned an error
MethodFailed ==
    /\ Called
    /\ aggregate'.op \in {"UpdateFabric", "Delete", "Reactivate"}
    /\ aggregate'.err # Nil

\* C21: an UpdateFabric, Delete or Reactivate that returns an error
\* (ErrConcurrencyConflict, ErrFabricDeleted or a validation error) leaves
\* the instance as it was: version, status, name, measure unit, offer
\* status and the pending events are those before the call.
C21_FailedCallChangesNothing ==
    [][MethodFailed =>
        /\ aggregate'.err \in {ErrConcurrencyConflict, ErrFabricDeleted,
                               ErrInvalidFabricNameLength}
        /\ aggregate'.fabric.Version = aggregate.fabric.Version
        /\ aggregate'.fabric.Status = aggregate.fabric.Status
        /\ aggregate'.fabric.Name = aggregate.fabric.Name
        /\ aggregate'.fabric.MeasureUnit = aggregate.fabric.MeasureUnit
        /\ aggregate'.fabric.OfferStatus = aggregate.fabric.OfferStatus
        /\ aggregate'.fabric.events = aggregate.fabric.events]_vars

\* a Reactivate of a deleted instance was refused for its version
C21_Witness ==
    /\ aggregate.op = "Reactivate"
    /\ aggregate.err = ErrConcurrencyConflict
    /\ aggregate.fabric # NoFabric
    /\ aggregate.fabric.Status = StatusDeleted
    /\ aggregate.args.version # aggregate.fabric.Version

\* a name the contract refuses: empty or longer than 250 characters
InvalidName(name) == Len(name) < 1 \/ Len(name) > 250

\* C22: UpdateFabric and Delete test their failure conditions in one order:
\* a DELETED instance gives ErrFabricDeleted whatever the version and the
\* name; otherwise a version other than the instance's gives
\* ErrConcurrencyConflict whatever the name; only then an invalid name gives
\* the validation error; and the call succeeds when none of these applies.
C22_FailureConditionsInOrder ==
    [][(Called /\ aggregate'.op \in {"UpdateFabric", "Delete"}) =>
        aggregate'.err =
            IF aggregate.fabric.Status = StatusDeleted THEN ErrFabricDeleted
            ELSE IF aggregate'.args.version # aggregate.fabric.Version
                THEN ErrConcurrencyConflict
            ELSE IF aggregate'.op = "UpdateFabric" /\ InvalidName(aggregate'.args.name)
                THEN ErrInvalidFabricNameLength
            ELSE Nil]_vars

\* an UpdateFabric on a deleted instance with a wrong version and an invalid
\* name was answered ErrFabricDeleted
C22_Witness ==
    /\ aggregate.op = "UpdateFabric"
    /\ aggregate.fabric # NoFabric
    /\ aggregate.fabric.Status = StatusDeleted
    /\ aggregate.args.version # aggregate.fabric.Version
    /\ InvalidName(aggregate.args.name)
    /\ aggregate.err = ErrFabricDeleted

\* the instance a successful Reactivate of a deleted instance f must leave
Reactivated(f, args) ==
    LET g == [f EXCEPT !.Status = StatusActive, !.Name = args.name,
                       !.MeasureUnit = args.measureUnit,
                       !.OfferStatus = args.offerStatus,
                       !.Version = f.Version + 1]
    IN [g EXCEPT !.events =
            Append(f.events,
                   [type |-> "FabricReactivated", Code |-> f.Code,
                    Name |-> args.name, MeasureUnit |-> args.measureUnit,
                    OfferStatus |-> args.offerStatus, Version |-> f.Version + 1])]

\* the instance and error a successful or refused UpdateFabric must leave,
\* by the order of C22
Updated(f, args) ==
    IF f.Version # args.version THEN [err |-> ErrConcurrencyConflict, fabric |-> f]
    ELSE IF InvalidName(args.name)
        THEN [err |-> ErrInvalidFabricNameLength, fabric |-> f]
    ELSE LET g == [f EXCEPT !.Name = args.name, !.MeasureUnit = args.measureUnit,
                            !.OfferStatus = args.offerStatus,
                            !.Version = f.Version + 1]
         IN [err |-> Nil,
             fabric |-> [g EXCEPT !.events =
                Append(f.events,
                       [type |-> "FabricUpdated", Code |-> f.Code,
                        Name |-> args.name, MeasureUnit |-> args.measureUnit,
                        OfferStatus |-> args.offerStatus,
                        Version |-> f.Version + 1])]]

ReactivateCalled == Called /\ aggregate'.op = "Reactivate"

\* C23 as stated: Reactivate on an ACTIVE instance is UpdateFabric with the
\* same arguments; on a DELETED instance it fails with ErrConcurrencyConflict
\* when the version differs and otherwise sets the status ACTIVE, applies
\* the fields, raises the version by 1 and appends one FabricReactivated.
C23_ReactivateAsStated ==
    [][ReactivateCalled =>
        IF aggregate.fabric.Status = StatusActive
            THEN /\ aggregate'.err = Updated(aggregate.fabric, aggregate'.args).err
                 /\ aggregate'.fabric = Updated(aggregate.fabric, aggregate'.args).fabric
        ELSE IF aggregate'.args.version # aggregate.fabric.Version
            THEN /\ aggregate'.err = ErrConcurrencyConflict
                 /\ aggregate'.fabric = aggregate.fabric
        ELSE /\ aggregate'.err = Nil
             /\ aggregate'.fabric = Reactivated(aggregate.fabric, aggregate'.args)]_vars

\* C23, amended: as above, and on a DELETED instance with the right version
\* an invalid name is refused with the validation error, the instance
\* staying DELETED and unchanged.
C23_ReactivateValidatesName ==
    [][ReactivateCalled =>
        IF aggregate.fabric.Status = StatusActive
            THEN /\ aggregate'.err = Updated(aggregate.fabric, aggregate'.args).err
                 /\ aggregate'.fabric = Updated(aggregate.fabric, aggregate'.args).fabric
        ELSE IF aggregate'.args.version # aggregate.fabric.Version
            THEN /\ aggregate'.err = ErrConcurrencyConflict
                 /\ aggregate'.fabric = aggregate.fabric
        ELSE IF InvalidName(aggregate'.args.name)
            THEN /\ aggregate'.err = ErrInvalidFabricNameLength
                 /\ aggregate'.fabric = aggregate.fabric
        ELSE /\ aggregate'.err = Nil
             /\ aggregate'.fabric = Reactivated(aggregate.fabric, aggregate'.args)]_vars

\* a deleted instance was reactivated, and a live one was "reactivated" into
\* an update: created, deleted, reactivated, then reactivated again
C23_Witness ==
    /\ aggregate.op = "Reactivate"
    /\ aggregate.err = Nil
    /\ aggregate.fabric # NoFabric
    /\ aggregate.fabric.Status = StatusActive
    /\ Len(aggregate.fabric.events) = 4
    /\ [i \in 1..4 |-> aggregate.fabric.events[i].type]
          = <<"FabricCreated", "FabricDeleted", "FabricReactivated", "FabricUpdated">>

\* the rows table fabrics holds for the code p creates, and the ACTIVE ones
StoredRows(p) == {i \in DOMAIN fabrics : fabrics[i].code = cmd[p].code}

StoredActive(p) == {i \in StoredRows(p) : fabrics[i].status = StatusActive}

\* what a step of Save by p does, by the rows the table holds for its code
SaveByStoredRow(p) ==
    /\ StoredActive(p) # {} =>
          /\ fabrics' = fabrics
          /\ pc'[p] = "done"
          /\ err'[p] \in {ErrDuplicateFabricCode, StorageError}
    /\ Len(fabrics') # Len(fabrics) =>
          /\ StoredRows(p) = {}
          /\ fabrics' = Append(fabrics,
                [version |-> 1, code |-> cmd[p].code, name |-> cmd[p].name,
                 measure_unit |-> cmd[p].measureUnit,
                 offer_status |-> cmd[p].offerStatus,
                 status |-> StatusActive])
    /\ (StoredRows(p) # {} /\ StoredActive(p) = {}) =>
          \/ /\ fabrics' = fabrics
             /\ pc'[p] = "done"
             /\ err'[p] = StorageError
          \/ /\ pc'[p] # "done"
             /\ fabrics' =
                  [i \in DOMAIN fabrics |->
                     IF i \in StoredRows(p)
                       THEN [version |-> fabrics[i].version + 1,
                             code |-> cmd[p].code, name |-> cmd[p].name,
                             measure_unit |-> cmd[p].measureUnit,
                             offer_status |-> cmd[p].offerStatus,
                             status |-> StatusActive]
                       ELSE fabrics[i]]
    /\ (StoredRows(p) = {} /\ pc[p] = "save_select") =>
          /\ fabrics' = fabrics
          /\ pc'[p] = "save_insert" \/ err'[p] = StorageError

\* C24: Save for a code that has an ACTIVE row fails with
\* ErrDuplicateFabricCode and leaves the table as it is; it inserts a row,
\* at version 1, only when the code has no row; for a code whose row is
\* DELETED it inserts nothing and writes into that row the reactivation of
\* what it loaded: status ACTIVE, the new fields, the row's version + 1.
\* A failure of the driver is the one other outcome, and writes nothing.
\* In no reachable state can a step of Save do anything else.
C24_SaveByStoredRow ==
    \A p \in Procs :
        ~ENABLED ((SaveSelect(p) \/ SaveInsert(p)) /\ ~SaveByStoredRow(p))

\* p and q are two createFabric commands for one code, both called before
\* either returned
ConcurrentCreators(p, q) ==
    /\ p # q
    /\ cmd[p].kind = "create"
    /\ cmd[q].kind = "create"
    /\ cmd[p].code = cmd[q].code

\* the rows creators have inserted for a code
InsertsOf(code) == {w \in writes : w.op = "insert" /\ w.code = code}

\* C25: concurrent creators of one code are serialized. Of two createFabric
\* commands in flight together, never both succeed; when both have returned
\* without a storage failure, each either succeeded or got
\* ErrDuplicateFabricCode, the latter only when some creator has written
\* the row; the two never build an envelope of the same
\* version; and, a row being inserted only by a creator that found none, no
\* code ever has two inserted rows.
C25_ConcurrentCreatorsSerialized ==
    /\ \A p, q \in Procs :
          (ConcurrentCreators(p, q) /\ Done(p) /\ Done(q)
             /\ err[p] # StorageError /\ err[q] # StorageError) =>
                /\ {err[p], err[q]} \subseteq {Nil, ErrDuplicateFabricCode}
                /\ err[p] # Nil \/ err[q] # Nil
                /\ (err[p] # Nil /\ err[q] # Nil) =>
                      \E w \in writes : /\ w.code = cmd[p].code
                                        /\ w.op \in {"insert", "reactivate"}
    /\ \A p, q \in Procs :
          (ConcurrentCreators(p, q) /\ appended[p] /\ appended[q]) =>
              \A i \in DOMAIN envelopes[p], j \in DOMAIN envelopes[q] :
                  envelopes[p][i].AggregateVersion # envelopes[q][j].AggregateVersion
    /\ \A code \in Codes : Cardinality(InsertsOf(code)) <= 1

\* p takes the GetByCode step of an update or a delete
LookupStep(p) ==
    /\ pc[p] \in {"update_get", "delete_get"}
    /\ pc'[p] # pc[p]

\* the code p asks for has rows, none of them ACTIVE
OnlyDeletedRows(p) ==
    /\ \E i \in DOMAIN fabrics : fabrics[i].code = cmd[p].code
    /\ \A i \in DOMAIN fabrics :
          fabrics[i].code = cmd[p].code => fabrics[i].status = StatusDeleted

\* C26: GetByCode returns a row only when its status is ACTIVE; a code whose
\* row is DELETED is answered ErrRecordNotFound, so an update or a delete
\* issued against it fails with ErrRecordNotFound (a failing driver apart)
\* and changes nothing: no row, no event, no publish.
C26_DeletedRowIsNotFound ==
    [][\A p \in Procs : LookupStep(p) =>
        /\ pc'[p] # "done" =>
              /\ fabric'[p].Status = StatusActive
              /\ \E i \in DOMAIN fabrics :
                    /\ fabrics[i].status = StatusActive
                    /\ fabrics[i].code = cmd[p].code
                    /\ fabrics[i].version = fabric'[p].Version
                    /\ fabrics[i].name = fabric'[p].Name
        /\ OnlyDeletedRows(p) =>
              /\ pc'[p] = "done"
              /\ err'[p] \in {ErrRecordNotFound, StorageError}
              /\ fabrics' = fabrics
              /\ events' = events
              /\ writes' = writes
              /\ ~wrote'[p] /\ ~appended'[p]
              /\ offered'[p] = <<>>]_vars

\* an update of a code whose only row is DELETED has returned
\* ErrRecordNotFound without having loaded anything
C26_Witness ==
    \E p \in Procs :
        /\ Done(p)
        /\ cmd[p].kind = "update"
        /\ err[p] = ErrRecordNotFound
        /\ fabric[p] = NoFabric
        /\ OnlyDeletedRows(p)

\* p has returned success to its caller
Succeeded(p) == Done(p) /\ err[p] = Nil /\ cmd[p].kind \in {"create", "update", "delete"}

\* the event type that names the fact a successful command produced: a
\* create that inserted the row at version 1 created the fabric, a create
\* that wrote a later version into a DELETED row reactivated it
FactOf(p) ==
    IF cmd[p].kind = "update" THEN "app.fabric.updated"
    ELSE IF cmd[p].kind = "delete" THEN "app.fabric.deleted"
    ELSE IF \E w \in writes : /\ w.op = "reactivate"
                               /\ w.code = cmd[p].code
                               /\ w.version = fabric[p].Version
        THEN "app.fabric.reactivated"
    ELSE "app.fabric.created"

\* C27: every successful create, update or delete has appended exactly one
\* envelope to the event store, whose AggregateID is the code, whose
\* AggregateVersion is the version of the aggregate after the mutation and
\* whose EventType names the fact produced; none completes with no envelope.
C27_OneEnvelopePerSuccess ==
    \A p \in Procs : Succeeded(p) =>
        /\ wrote[p]
        /\ appended[p]
        /\ Len(envelopes[p]) = 1
        /\ envelopes[p][1] \in events
        /\ envelopes[p][1].AggregateID = cmd[p].code
        /\ envelopes[p][1].AggregateVersion = fabric[p].Version
        /\ envelopes[p][1].Payload.Version = fabric[p].Version
        /\ envelopes[p][1].EventType = FactOf(p)
        /\ \E w \in writes : /\ w.code = cmd[p].code
                              /\ w.version = fabric[p].Version

\* a create that reactivated a DELETED row has returned success with its
\* one "reactivated" envelope
C27_Witness ==
    \E p \in Procs :
        /\ Succeeded(p)
        /\ cmd[p].kind = "create"
        /\ Len(envelopes[p]) = 1
        /\ envelopes[p][1].EventType = "app.fabric.reactivated"
        /\ envelopes[p][1].AggregateVersion > 1

\* C28: every envelope the command service has built, whatever the command,
\* carries the aggregate type "Fabric".
C28_AggregateTypeIsFabric ==
    \A p \in Procs : \A i \in 1..Len(envelopes[p]) :
        envelopes[p][i].AggregateType = "Fabric"

\* the four required fields are present: three strings that are not "" and
\* a payload that is not nil
Present(e) ==
    /\ e.EventType # ""
    /\ e.AggregateID # <<>>
    /\ e.AggregateType # ""
    /\ e.Payload # NilPayload

\* the four required fields hold something: as Present, and the payload is
\* neither an object without members nor a string without characters
NonEmpty(e) ==
    /\ Present(e)
    /\ e.Payload \notin {PayloadEmptyObject, PayloadEmptyString}

\* a call of NatsPublisher.Publish validates by Ok: it hands the envelope to
\* the connection when Ok holds and returns the validation error, sending
\* nothing, when it does not
PublisherGate(Ok(_)) ==
    (publication.pc = "none" /\ publication'.pc = "returned") =>
        LET e == publication'.envelope
        IN /\ Validate(e) = Nil <=> Ok(e)
           /\ Ok(e) => /\ publication'.err # "invalid event envelope"
                        /\ publication'.sent = <<e>>
           /\ ~Ok(e) => /\ publication'.err = "invalid event envelope"
                         /\ publication'.sent = <<>>

\* FabricEventHandler.HandleMessage validates a decoded envelope by Ok: it
\* goes on to adapt the event when Ok holds and returns nil when it does
\* not; no command is ever invoked for an envelope that fails Validate
HandlerGate(Ok(_)) ==
    /\ (/\ delivery.pc = "handler"
         /\ delivery'.pc # "handler"
         /\ message.payload.json = "object") =>
            LET e == UnmarshalEnvelope(message.payload).envelope
            IN /\ Validate(e) = Nil <=> Ok(e)
               /\ Ok(e) => delivery'.pc = "adapt"
               /\ ~Ok(e) => delivery' = Returned(Nil)
    /\ (delivery'.pc \in {"adapt", "create", "update", "delete"}
            \/ delivery'.invoked # NoCommand) =>
            /\ message'.payload.json = "object"
            /\ Validate(UnmarshalEnvelope(message'.payload).envelope) = Nil

\* C29 as stated: validation accepts an envelope exactly when eventType,
\* aggregateID, aggregateType and payload are all non-empty and rejects it
\* otherwise; the publisher never sends, and the inbound handler never
\* turns into a command, an envelope that fails validation.
C29_AcceptsExactlyNonEmpty ==
    [][PublisherGate(NonEmpty) /\ HandlerGate(NonEmpty)]_vars

\* C29 amended: validation accepts an envelope exactly when eventType,
\* aggregateID and aggregateType are non-empty strings and the payload is
\* not nil (a payload that is present but empty is accepted), and rejects
\* it otherwise; the publisher never sends, and the inbound handler never
\* turns into a command, an envelope that fails validation.
C29_AcceptsExactlyPresent ==
    [][PublisherGate(Present) /\ HandlerGate(Present)]_vars

\* the publisher has refused an envelope whose only fault is a nil payload
\* and sent nothing, and the handler has dropped a message whose envelope
\* lacks only the aggregate type and would otherwise create a fabric
C29_Witness ==
    /\ publication.pc = "returned"
    /\ publication.envelope.EventType # ""
    /\ publication.envelope.AggregateID # <<>>
    /\ publication.envelope.AggregateType # ""
    /\ publication.envelope.Payload = NilPayload
    /\ publication.err = "invalid event envelope"
    /\ publication.sent = <<>>
    /\ delivery.pc = "returned"
    /\ delivery.handler # <<>>
    /\ delivery.invoked = NoCommand
    /\ message.payload.json = "object"
    /\ message.payload.EventType = EventTypeCreated
    /\ message.payload.AggregateID # <<>>
    /\ message.payload.AggregateType = ""
    /\ message.payload.Payload \in PayloadObjects
    /\ validateCreateFabricEvent(
           withDefaults(UnmarshalErpFabricEvent(message.payload.Payload).event))

\* C30: once a command has built its envelopes from an aggregate instance,
\* the pending-event list of that instance is empty: Events() read again
\* yields none.
C30_PendingEventsCleared ==
    \A p \in Procs : envelopes[p] # <<>> => Events(fabric[p]) = <<>>

\* the positions of a command at which its state-store write is attempted
WritePositions == {"save_select", "save_insert", "update_write", "delete_write"}

\* C31: a command whose state-store write does not commit (storage error,
\* zero rows affected, a conflict) returns an error with no partial effect:
\* the step that fails leaves table fabrics and table events as they were,
\* and the command has appended no event and offered nothing to the
\* publisher; a command appends and publishes only after its write committed.
C31_UncommittedWriteHasNoEffect ==
    [][\A p \in Procs :
        /\ (/\ pc[p] \in WritePositions
            /\ pc'[p] = "done"
            /\ ~wrote'[p]) =>
               /\ err'[p] # Nil
               /\ fabrics' = fabrics
               /\ events' = events
               /\ writes' = writes
               /\ envelopes'[p] = <<>>
               /\ offered'[p] = <<>>
               /\ ~appended'[p]
        /\ pc'[p] \in {"store", "publish"} => wrote'[p]
        /\ (appended'[p] \/ offered'[p] # <<>>) => wrote'[p]]_vars

\* a delete that reached its UPDATE statement, matched no row and returned
\* ErrRecordNotFound while the row of its code is stored ACTIVE
C31_Witness ==
    \E p \in Procs :
        /\ Done(p)
        /\ cmd[p].kind = "delete"
        /\ ~wrote[p]
        /\ err[p] = ErrRecordNotFound
        /\ fabric[p] # NoFabric
        /\ Events(fabric[p]) # <<>>
        /\ ActiveRowsOf(fabrics, cmd[p].code) # {}
        /\ envelopes[p] = <<>>
        /\ offered[p] = <<>>

\* the envelopes of a batch
BatchSet(b) == {b[i] : i \in 1..Len(b)}

\* C32: an append of a batch is all-or-nothing: when recording any envelope
\* of the batch fails (uniqueness violation or other storage error) none of
\* the batch's envelopes is in the event store afterwards and the store is
\* as it was; when the append succeeds all of them are.
C32_AppendIsAllOrNothing ==
    [][batch'.calls # batch.calls =>
        IF batch'.err = Nil
            THEN events' = events \cup BatchSet(batch'.envelopes)
            ELSE /\ events' = events
                 /\ BatchSet(batch'.envelopes) \cap events' = {}]_vars

\* a batch of two whose first envelope is of a version the store did not
\* hold and whose second collided: the append failed and neither is stored
C32_Witness ==
    /\ Len(batch.envelopes) = 2
    /\ batch.err = EventStoreErrConcurrencyConflict
    /\ events # {}
    /\ UniqueAggregateVersion(events, batch.envelopes[1])
    /\ ~UniqueAggregateVersion(events, batch.envelopes[2])
    /\ BatchSet(batch.envelopes) \cap events = {}

\* C33: an envelope is offered to the publisher only after it has been
\* recorded in the event store: the step that publishes is taken by a
\* command whose append succeeded and finds each of its envelopes in table
\* events; whatever was offered is stored; a command whose append failed
\* has offered nothing.
C33_PublishOnlyAfterAppend ==
    [][\A p \in Procs :
        /\ (pc[p] = "publish" /\ pc'[p] = "done") =>
               /\ appended[p]
               /\ \A i \in 1..Len(envelopes[p]) : envelopes[p][i] \in events
               /\ Len(offered'[p]) = Len(envelopes[p])
        /\ \A i \in 1..Len(offered'[p]) :
               /\ appended'[p]
               /\ offered'[p][i].envelope \in events'
        /\ (pc'[p] = "done" /\ ~appended'[p]) => offered'[p] = <<>>
        /\ (pc[p] = "store" /\ pc'[p] = "done" /\ err'[p] # Nil) =>
               /\ ~appended'[p]
               /\ offered'[p] = <<>>]_vars

\* one REST update has published its stored envelope while an earlier
\* command of the run failed at the append and offered nothing
C33_Witness ==
    \E p, q \in Procs :
        /\ Done(p)
        /\ cmd[p].kind = "update"
        /\ cmd[p].source = CommandSourceREST
        /\ appended[p]
        /\ Len(offered[p]) = 1
        /\ offered[p][1].err = Nil
        /\ offered[p][1].envelope \in events
        /\ Done(q)
        /\ cmd[q].source = CommandSourceREST
        /\ wrote[q]
        /\ ~appended[q]
        /\ err[q] # Nil
        /\ envelopes[q] # <<>>
        /\ offered[q] = <<>>

\* C34: a command called with a context that carries no source is treated
\* as coming from REST, so the envelopes it appended are published; of the
\* contexts a caller makes only the one marked CommandSourceEvent
\* suppresses publishing.
C34_UnmarkedContextPublishes ==
    [][\A p \in Procs :
        /\ (pc[p] = "store" /\ appended'[p]) =>
               pc'[p] = IF cmd[p].source = CommandSourceEvent THEN "done"
                        ELSE "publish"
        /\ (pc'[p] = "done" /\ appended'[p]) =>
               IF cmd'[p].source = CommandSourceEvent
                   THEN offered'[p] = <<>>
                   ELSE /\ Len(offered'[p]) = Len(envelopes'[p])
                        /\ \A i \in 1..Len(offered'[p]) :
                               offered'[p][i].envelope = envelopes'[p][i]]_vars

\* a create called with an unmarked context has returned with its one
\* envelope offered to the publisher
C34_Witness ==
    \E p \in Procs :
        /\ Done(p)
        /\ cmd[p].kind = "create"
        /\ cmd[p].source = NoCommandSource
        /\ err[p] = Nil
        /\ appended[p]
        /\ Len(offered[p]) = 1
        /\ offered[p][1].envelope \in events
        /\ offered[p][1].envelope.EventType = "app.fabric.created"

\* command c comes from an "updated" event of external version
\* n = c.aggregateVersion, and table t already holds the row of its code at
\* version n or later; a command that has not written and finds the table
\* so is a delivery after the event was applied
Redelivered(c, t) ==
    /\ c.kind = "update"
    /\ c.source = CommandSourceEvent
    /\ \E i \in RowsOf(t, c.code) : t[i].version >= c.aggregateVersion

\* C35: delivering an "updated" event (code, external version n) again
\* after the stored version has reached n is idempotent: no step of its
\* command changes table fabrics or table events, and the handler returns
\* nil (the read of the row failing in the driver apart, which is returned
\* for another delivery).
C35_RedeliveredUpdateIsNoOp ==
    [][\A p \in Procs :
        (Redelivered(cmd'[p], fabrics) /\ ~wrote[p]) =>
            /\ fabrics' = fabrics
            /\ events' = events
            /\ writes' = writes
            /\ offered'[p] = <<>>
            /\ pc'[p] \notin {"update_write", "store", "publish"}
            /\ pc'[p] = "done" =>
                   /\ err'[p] \in {ErrConcurrencyConflict, ErrRecordNotFound,
                                    StorageError}
                   /\ err'[p] # StorageError => UpdateEventResult(err'[p]) = Nil]_vars

\* the "updated" event of version 2 has been delivered again after it was
\* applied: the row is stored at version 2 with the event's name, its
\* envelope is recorded, and the second delivery ended in the version
\* conflict that the handler answers with nil
C35_Witness ==
    \E p \in Procs :
        /\ Done(p)
        /\ cmd[p].kind = "update"
        /\ cmd[p].source = CommandSourceEvent
        /\ cmd[p].aggregateVersion = 2
        /\ err[p] = ErrConcurrencyConflict
        /\ UpdateEventResult(err[p]) = Nil
        /\ ~wrote[p]
        /\ \E i \in ActiveRowsOf(fabrics, cmd[p].code) :
               /\ fabrics[i].version = 2
               /\ fabrics[i].name = cmd[p].name
        /\ \E e \in events :
               /\ e.AggregateID = cmd[p].code
               /\ e.AggregateVersion = 2
               /\ e.EventType = "app.fabric.updated"
               /\ e.Payload.Name = cmd[p].name

\* C36: in every reachable state table fabrics holds at most one row per
\* code, whatever the interleaving of concurrent creates, updates and
\* deletes.
C36_OneRowPerCode ==
    \A i, j \in 1..Len(fabrics) : fabrics[i].code = fabrics[j].code => i = j

\* no command is in flight
Quiescent == \A p \in Procs : ~InFlight(p)

\* the event type under which the command of a committed write records it
EventTypeOfWrite(op) ==
    IF op = "insert" THEN "app.fabric.created"
    ELSE IF op = "reactivate" THEN "app.fabric.reactivated"
    ELSE IF op = "update" THEN "app.fabric.updated"
    ELSE "app.fabric.deleted"

\* no append has failed: every committed write of the log has its event in
\* table events
NoAppendFailed ==
    \A w \in writes :
        \E e \in events : /\ e.AggregateID = w.code
                           /\ e.AggregateVersion = w.version
                           /\ e.EventType = EventTypeOfWrite(w.op)

EventsAt(code, version) ==
    {e \in events : e.AggregateID = code /\ e.AggregateVersion = version}

\* the versions an event or a row of a run may carry
VersionsOfRun == 1..(MaxCommands + MaxVersion + 1)

\* C37: when no append failed and no command is in flight, the event log
\* is complete and gap-free: for each code stored at version n table events
\* holds exactly one event of each version 1..n and none of a later
\* version; for a code without a row it holds none.
C37_EventLogGapFree ==
    (Quiescent /\ NoAppendFailed) =>
        \A code \in Codes : \A version \in VersionsOfRun :
            /\ \A i \in RowsOf(fabrics, code) :
                   Cardinality(EventsAt(code, version)) =
                       IF version <= fabrics[i].version THEN 1 ELSE 0
            /\ RowsOf(fabrics, code) = {} => EventsAt(code, version) = {}

\* at rest after a create and an update whose appends succeeded: the row
\* is at version 2 and the log holds the created and the updated event
C37_Witness ==
    /\ Quiescent
    /\ NoAppendFailed
    /\ Cardinality(writes) = 2
    /\ \E i \in 1..Len(fabrics) : fabrics[i].version = 2
    /\ \E e \in events : e.AggregateVersion = 1 /\ e.EventType = "app.fabric.created"
    /\ \E e \in events : e.AggregateVersion = 2 /\ e.EventType = "app.fabric.updated"

\* what the handler of a completed delivery returned to the subscriber
HandlerResult(h) ==
    IF h.kind = "create" THEN CreateEventResult(h.err)
    ELSE IF h.kind = "update" THEN UpdateEventResult(h.err)
    ELSE DeleteEventResult(h.err)

\* a failure-free delivery of this message would have been applied: an
\* update whose expected version was the stored one, a create of a code
\* without an ACTIVE row
Applicable(h) ==
    \/ h.kind = "update" /\ h.current
    \/ h.kind = "create" /\ ~h.current

\* the version the event of this message stands for
VersionOfEvent(h) == IF h.kind = "create" THEN 1 ELSE h.version + 1

\* C38: on the asynchronous path a retry after an infrastructure failure
\* converges: when a delivery failed with an error the handler returned
\* for retry (an append failure after the committed write included) and
\* the same message, delivered again, was handled without failure, the row
\* is stored at the event's version and exactly one event of that version
\* is recorded, as after a failure-free first delivery.
C38_RetryConverges ==
    (Quiescent /\ Len(history) >= 2) =>
        LET a == history[Len(history) - 1]
            b == history[Len(history)]
        IN (/\ a.kind = b.kind
            /\ a.version = b.version
            /\ Applicable(a)
            /\ HandlerResult(a) # Nil
            /\ HandlerResult(b) = Nil) =>
               \A code \in Codes :
                  /\ \E i \in ActiveRowsOf(fabrics, code) :
                         fabrics[i].version = VersionOfEvent(a)
                  /\ Cardinality(EventsAt(code, VersionOfEvent(a))) = 1

\* C39: routing is deterministic: for any set of registrations, patterns
\* that differ only in letter case included, the handler a message was
\* routed to is the only one its subject can be routed to, so every
\* delivery of that subject reaches the same handler.
C39_RoutingIsDeterministic ==
    delivery.handler # <<>> =>
        \A handler \in findHandler(handlers, message.subject) :
            handler = delivery.handler

====
